---- MODULE Spec2Model ----
(***************************************************************************)
(* A model of neophile: the update appliers (neophile/update), the pull    *)
(* request manager (neophile/pr.py), the repository cycle                  *)
(* (neophile/processor.py, neophile/repository.py), the cached Helm        *)
(* inventory (neophile/inventory/helm.py), the analyzers                   *)
(* (neophile/analysis), the scanners (neophile/scanner), the version      *)
(* model (neophile/inventory/version.py) and the GitHub tag inventory      *)
(* (neophile/inventory/github.py).                                         *)
(***************************************************************************)
EXTENDS Integers, Sequences, FiniteSets, TLC

VARIABLES
    \* ---- update appliers --------------------------------------------
    files,      \* working tree: content of each structured file
    updates,    \* the Update objects, by identity
    io,         \* file reads, file writes and subprocess runs so far
    raised,     \* exception raised by the last apply() call, or "none"
    calls,      \* number of apply() calls made on each Update
    \* ---- repository cycle and pull request manager --------------------
    pc,         \* position of the Processor in the repository cycle
    git,        \* local checkout: HEAD, local branches, remotes, commits
    repoObj,    \* Repository._branch, the branch saved at construction
    github,     \* GitHub side: open pull requests, auto-merge flags
    prcall,     \* the current make_pull_request call: pr_number, requests
    cycle,      \* the current cycle: its number, whether it re-runs on the
                \* checkout of a cycle that published, its changes and error
    \* ---- cached Helm inventory ----------------------------------------
    cache,      \* CachedHelmInventory._cache (in memory)
    cacheFile,  \* the cache file on disk: {} when absent, else {content}
    now,        \* time.time(), in seconds
    upstream,   \* what each Helm repository currently serves
    inv,        \* the last inventory() call: its argument, result, number of
                \* fetches, and the timestamp of the entry it found (-1: none)
    \* ---- analyzers -----------------------------------------------------
    pytree,     \* the tree PythonAnalyzer runs on: its files and Git state
    pycall,     \* the last PythonAnalyzer call: its results and exception
    tags,       \* what GitHub answers to a request for the repository's tags
    ghinv,      \* the last GitHubInventory.inventory call and its outcome
    charts,     \* the dependencies the Chart.yaml of the tree declares
    indexes,    \* what each Helm repository answers to a request for its
                \* index
    analysis,   \* the last HelmAnalyzer.analyze call and its outcome
    tree,       \* the tree the Kustomize and pre-commit analyzers run on:
                \* the resources and the hooks its files declare
    released,   \* what GitHubInventory.inventory answers for each repository
    report,     \* the last analyze() call of these analyzers: its results,
                \* its exception, its inventory requests, and the apply()
                \* calls made on its results
    \* ---- concurrent inventory calls -----------------------------------
    tasks,      \* the coroutines running CachedHelmInventory.inventory on
                \* one instance: the position and the locals of each
    procs       \* the tool processes that share one cache path: the
                \* in-memory cache of each and what it has fetched and saved

updVars   == <<files, updates, io, raised, calls>>
cycleVars == <<pc, git, repoObj, github, prcall, cycle>>
cacheVars == <<cache, cacheFile, now, upstream, inv>>
pyVars    == <<pytree, pycall>>
ghVars    == <<tags, ghinv>>
helmVars  == <<charts, indexes, analysis>>
treeVars  == <<tree, released, report>>
taskVars  == <<tasks, procs>>
anVars    == <<pyVars, ghVars, helmVars, treeVars, taskVars>>
vars      == <<updVars, cycleVars, cacheVars, anVars>>

(***************************************************************************)
(* Bounds                                                                  *)
(***************************************************************************)
MaxCalls == 2       \* apply() calls per Update
MaxCycles == 2      \* repository cycles run one after another
MaxDays == 2        \* multiples of the cache lifetime the clock reaches
MaxInventoryCalls == 2  \* inventory() calls
MaxPyCalls == 2     \* PythonAnalyzer calls on one tree
MaxPart == 1        \* largest major, minor or patch number of a version

(***************************************************************************)
(* Update appliers                                                         *)
(***************************************************************************)
UpdateIds == {"helm", "kustomize", "pre_commit", "python"}

\* A Kustomize resource "<stem>?ref=<ref>" is its stem, the character
\* before "ref=" and its ref; a resource without a ref= suffix has ref "".
\* In "<stem>&ref=<ref>" the stem holds the query parameters before the ref.
Resource(stem, ref) ==
    [stem |-> stem, sep |-> IF ref = "" THEN "" ELSE "?", ref |-> ref]
ResourceAmp(stem, ref) == [stem |-> stem, sep |-> "&", ref |-> ref]

\* re.sub(f"\\?ref={current}$", f"?ref={latest}", resource)
ReSubRef(resource, current, latest) ==
    IF resource.sep = "?" /\ resource.ref = current
    THEN [resource EXCEPT !.ref = latest]
    ELSE resource

\* The Update objects of the model, one of each kind (fields other than
\* applied never change).
HelmUpdate ==
    [kind |-> "helm", path |-> "Chart.yaml", key |-> "gafaelfawr",
     current |-> "1.3.1", latest |-> "v1.4.0"]
KustomizeUpdate ==
    [kind |-> "kustomize", path |-> "kustomization.yaml",
     key |-> Resource("github.com/lsst-sqre/sqrbot//manifests", "0.6.0"),
     current |-> "0.6.0", latest |-> "0.7.0"]
PreCommitUpdate ==
    [kind |-> "pre_commit", path |-> ".pre-commit-config.yaml",
     key |-> "https://github.com/ambv/black",
     current |-> "19.10b0", latest |-> "23.3.0"]
PythonFrozenUpdate ==
    [kind |-> "python", path |-> "requirements", key |-> "",
     current |-> "", latest |-> ""]

UpdateMixin(id) ==
    CASE id = "helm" -> HelmUpdate
      [] id = "kustomize" -> KustomizeUpdate
      [] id = "pre_commit" -> PreCommitUpdate
      [] id = "python" -> PythonFrozenUpdate

\* Contents a Chart.yaml can have: the version of the chart itself and its
\* list of dependencies, each with a name, a version and a repository.
Dep(name, version) ==
    [name |-> name, version |-> version,
     repository |-> "https://lsst-sqre.github.io/charts"]
Chart(dependencies) == [version |-> "1.3.1", dependencies |-> dependencies]
ChartContents ==
    { Chart(<<>>),
      Chart(<<Dep("redis", "1.0.0")>>),
      Chart(<<Dep("gafaelfawr", "1.3.1"), Dep("redis", "1.0.0")>>),
      Chart(<<Dep("gafaelfawr", "1.3.1"), Dep("redis", "1.0.0"),
              Dep("gafaelfawr", "1.3.0")>>) }

\* Contents a kustomization.yaml can have: its list of resources.
KustomizationContents ==
    { <<>>,
      <<Resource("configmap.yaml", "")>>,
      <<Resource("github.com/lsst-sqre/sqrbot//manifests", "0.6.0"),
        Resource("github.com/lsst-sqre/sqrbot//manifests/extra", "0.6.0")>>,
      <<Resource("configmap.yaml", ""),
        Resource("github.com/lsst-sqre/sqrbot//manifests", "0.6.0"),
        Resource("github.com/lsst-sqre/sqrbot//manifests", "0.6.0")>> }

\* Contents a .pre-commit-config.yaml can have: its list of hook repos.
Hook(repo, rev) == [repo |-> repo, rev |-> rev]
PreCommitContents ==
    { <<>>,
      <<Hook("https://github.com/pre-commit/pre-commit-hooks", "v3.1.0")>>,
      <<Hook("https://github.com/pre-commit/pre-commit-hooks", "v3.1.0"),
        Hook("https://github.com/ambv/black", "19.10b0")>> }

\* Contents of the frozen requirements: a generation number of the lock.
RequirementsContents == {0, 1}

Bump(counter, field) == [counter EXCEPT ![field] = @ + 1]

\* The result of one apply(): the new files, applied flag, I/O counters and
\* the exception that reaches the caller.
Outcome(f, a, i, e) == [files |-> f, applied |-> a, io |-> i, raised |-> e]

\* HelmUpdate.apply after the applied check.
HelmApplyBodySilent(u, f, i) ==
    LET data == f["Chart.yaml"].dependencies
        new  == [k \in 1..Len(data) |->
                    IF data[k].name = u.key
                    THEN [data[k] EXCEPT !.version = u.latest]
                    ELSE data[k]]
    IN  Outcome([f EXCEPT !["Chart.yaml"].dependencies = new], TRUE,
                Bump(Bump(i, "reads"), "writes"), "none")

HelmApplyBodyEveryVersion(u, f, i) ==
    LET data  == f["Chart.yaml"].dependencies
        found == \E k \in 1..Len(data) : data[k].name = u.key
        new   == [k \in 1..Len(data) |->
                    [data[k] EXCEPT !.version = u.latest]]
    IN  IF ~found
        THEN Outcome(f, FALSE, Bump(i, "reads"), "DependencyNotFoundError")
        ELSE Outcome([f EXCEPT !["Chart.yaml"] =
                            [version |-> u.latest, dependencies |-> new]],
                     TRUE, Bump(Bump(i, "reads"), "writes"), "none")

HelmApplyBody(u, f, i) ==
    LET data  == f["Chart.yaml"].dependencies
        found == \E k \in 1..Len(data) : data[k].name = u.key
        new   == [k \in 1..Len(data) |->
                    IF data[k].name = u.key
                    THEN [data[k] EXCEPT !.version = u.latest]
                    ELSE data[k]]
    IN  IF ~found
        THEN Outcome(f, FALSE, Bump(i, "reads"), "DependencyNotFoundError")
        ELSE Outcome([f EXCEPT !["Chart.yaml"].dependencies = new], TRUE,
                     Bump(Bump(i, "reads"), "writes"), "none")

HelmUpdateApplyUnguarded(u, applied, f, i) == HelmApplyBody(u, f, i)

HelmUpdateApply(u, applied, f, i) ==
    IF applied THEN Outcome(f, applied, i, "none") ELSE HelmApplyBody(u, f, i)

\* KustomizeUpdate.apply after the applied check.
KustomizeApplyBody(u, f, i) ==
    LET data    == f["kustomization.yaml"]
        matches == {k \in 1..Len(data) : data[k] = u.key}
    IN  IF matches = {}
        THEN Outcome(f, FALSE, Bump(i, "reads"), "DependencyNotFoundError")
        ELSE LET index == CHOOSE k \in matches : \A j \in matches : k <= j
                 new_resource == ReSubRef(data[index], u.current, u.latest)
             IN  Outcome([f EXCEPT !["kustomization.yaml"] =
                                [data EXCEPT ![index] = new_resource]],
                         TRUE, Bump(Bump(i, "reads"), "writes"), "none")

KustomizeUpdateApply(u, applied, f, i) ==
    IF applied THEN Outcome(f, applied, i, "none")
    ELSE KustomizeApplyBody(u, f, i)

\* PreCommitUpdate.apply after the applied check.
PreCommitApplyBody(u, f, i) ==
    LET data  == f[".pre-commit-config.yaml"]
        found == \E k \in 1..Len(data) : data[k].repo = u.key
        new   == [k \in 1..Len(data) |->
                    IF data[k].repo = u.key
                    THEN [data[k] EXCEPT !.rev = u.latest]
                    ELSE data[k]]
    IN  IF ~found
        THEN Outcome(f, FALSE, Bump(i, "reads"), "DependencyNotFoundError")
        ELSE Outcome([f EXCEPT ![".pre-commit-config.yaml"] = new], TRUE,
                     Bump(Bump(i, "reads"), "writes"), "none")

PreCommitUpdateApply(u, applied, f, i) ==
    IF applied THEN Outcome(f, applied, i, "none")
    ELSE PreCommitApplyBody(u, f, i)

\* PythonFrozenUpdate.apply: "make update-deps" exits zero or non-zero and
\* leaves the requirements at some content either way; CalledProcessError
\* is caught and logged.
PythonFrozenUpdateApplyAlways(u, applied, f, i, ok, content) ==
    Outcome([f EXCEPT !["requirements"] = content], ok,
            Bump(i, "subprocs"), "none")

PythonFrozenUpdateApply(u, applied, f, i, ok, content) ==
    IF applied THEN Outcome(f, applied, i, "none")
    ELSE IF ok
         THEN Outcome([f EXCEPT !["requirements"] = content], TRUE,
                      Bump(i, "subprocs"), "none")
         ELSE Outcome([f EXCEPT !["requirements"] = content], FALSE,
                      Bump(i, "subprocs"), "none")

\* The outcomes apply() can have on Update id in working tree f.
ApplyOutcomes(id, applied, f, i) ==
    LET u == UpdateMixin(id)
    IN  CASE id = "helm" -> {HelmUpdateApply(u, applied, f, i)}
          [] id = "kustomize" -> {KustomizeUpdateApply(u, applied, f, i)}
          [] id = "pre_commit" -> {PreCommitUpdateApply(u, applied, f, i)}
          [] id = "python" ->
                {PythonFrozenUpdateApply(u, applied, f, i, ok, c) :
                    ok \in BOOLEAN, c \in RequirementsContents}

NoIO == [reads |-> 0, writes |-> 0, subprocs |-> 0]

\* The working trees the appliers are run on.
WorkingTrees ==
    { [p \in {"Chart.yaml", "kustomization.yaml", ".pre-commit-config.yaml",
              "requirements"} |->
         CASE p = "Chart.yaml" -> c
           [] p = "kustomization.yaml" -> k
           [] p = ".pre-commit-config.yaml" -> h
           [] p = "requirements" -> r] :
      c \in ChartContents, k \in KustomizationContents,
      h \in PreCommitContents, r \in RequirementsContents }

\* Update objects are constructed with applied either way (the analyzers
\* pass applied=False, or applied=update for the Python analyzer).
InitUpdates ==
    /\ files \in WorkingTrees
    /\ updates \in [UpdateIds -> BOOLEAN]
    /\ io = NoIO
    /\ raised = "none"
    /\ calls = [id \in UpdateIds |-> 0]

\* One call of update.apply() on the Update object id.
Apply(id) ==
    /\ calls[id] < MaxCalls
    /\ \E o \in ApplyOutcomes(id, updates[id], files, io) :
        /\ files' = o.files
        /\ updates' = [updates EXCEPT ![id] = o.applied]
        /\ io' = o.io
        /\ raised' = o.raised
    /\ calls' = [calls EXCEPT ![id] = @ + 1]
    /\ UNCHANGED <<cycleVars, cacheVars, anVars>>


(***************************************************************************)
(* Repository cycle (Processor) and pull request manager (PullRequester)   *)
(***************************************************************************)
None == 0                      \* Python's None for an absent pr_number
NeophileBranch == "u/neophile"
TmpRemote == "tmp-neophile"

\* The tree of the default branch as cloned: every scanned dependency is
\* declared in its file.
CheckoutTree ==
    [p \in {"Chart.yaml", "kustomization.yaml", ".pre-commit-config.yaml",
            "requirements"} |->
       CASE p = "Chart.yaml" ->
                Chart(<<Dep("gafaelfawr", "1.3.1"), Dep("redis", "1.0.0")>>)
         [] p = "kustomization.yaml" ->
                <<Resource("configmap.yaml", ""),
                  Resource("github.com/lsst-sqre/sqrbot//manifests", "0.6.0")>>
         [] p = ".pre-commit-config.yaml" ->
                <<Hook("https://github.com/pre-commit/pre-commit-hooks",
                       "v3.1.0"),
                  Hook("https://github.com/ambv/black", "19.10b0")>>
         [] p = "requirements" -> 0]

FreshClone ==
    [head |-> "main", heads |-> {"main"}, remotes |-> {"origin"},
     modified |-> {}, commits |-> <<>>, pushes |-> <<>>]

NoCall ==
    [state |-> "none", found |-> <<>>, pr_number |-> None, number |-> None,
     staged |-> {}, remote_added |-> FALSE, push |-> "none",
     posts |-> 0, patches |-> <<>>, graphql |-> 0, auto_merge |-> "none"]

NoCycle ==
    [n |-> 0, fresh |-> FALSE, error |-> "none", switched |-> FALSE,
     changes |-> <<>>, rerun |-> FALSE, pr_open |-> FALSE,
     pr_returned |-> 0]

InitCycle ==
    /\ pc = "idle"
    /\ \E m \in {{}, {"README.md"}} : git = [FreshClone EXCEPT !.modified = m]
    /\ repoObj = "none"
    /\ \E o \in {<<>>, <<7>>} :
          github = [open |-> o, next |-> 8, auto_merge |-> {}]
    /\ prcall = NoCall
    /\ cycle = NoCycle
    /\ files = CheckoutTree
    /\ updates = [id \in UpdateIds |-> FALSE]
    /\ io = NoIO
    /\ raised = "none"
    /\ calls = [id \in UpdateIds |-> 0]

\* An exception leaves _process_one_repository: nothing after the raising
\* statement runs.
Raise(e) ==
    /\ pc' = "failed"
    /\ cycle' = [cycle EXCEPT !.error = e]

\* Processor.process / process_checkout up to the Repository object: a new
\* clone (Repo.clone_from) or the checkout left by the previous cycle.
ProcessCheckout(fresh) ==
    /\ pc \in {"idle", "done", "failed"}
    /\ cycle.n < MaxCycles
    /\ git' = IF fresh THEN FreshClone ELSE git
    /\ files' = IF fresh THEN CheckoutTree ELSE files
    /\ repoObj' = git'.head
    /\ pc' = "switch_branch"
    /\ cycle' = [NoCycle EXCEPT !.n = cycle.n + 1, !.fresh = fresh,
                                !.rerun = /\ ~fresh
                                          /\ pc = "done"
                                          /\ prcall.state = "returned",
                                !.pr_open = github.open # <<>>,
                                !.pr_returned = cycle.pr_returned]
    /\ prcall' = NoCall
    /\ updates' = [id \in UpdateIds |-> FALSE]
    /\ UNCHANGED <<github, io, raised, calls, cacheVars, anVars>>

\* Repository.switch_branch: create_head fails when the branch exists.
SwitchBranch ==
    /\ pc = "switch_branch"
    /\ IF NeophileBranch \in git.heads
       THEN Raise("GitCommandError") /\ UNCHANGED git
       ELSE /\ git' = [git EXCEPT !.heads = @ \cup {NeophileBranch},
                                  !.head = NeophileBranch]
            /\ pc' = "update_checkout"
            /\ cycle' = [cycle EXCEPT !.switched = TRUE]
    /\ UNCHANGED <<repoObj, github, prcall, updVars, cacheVars, anVars>>

\* Repository.restore_branch: check out the saved branch; tracked files
\* without local modifications take that branch's content.
RestoreBranch ==
    /\ pc = "restore_branch"
    /\ git' = [git EXCEPT !.head = repoObj]
    /\ files' = [p \in DOMAIN files |->
                    IF p \in git.modified THEN files[p] ELSE CheckoutTree[p]]
    /\ pc' = "done"
    /\ UNCHANGED <<repoObj, github, prcall, cycle, updates, io, raised, calls, cacheVars, anVars>>

\* What the scanners report: the dependency an analyzer looks up is
\* declared in its file.
Scanned(id, f) ==
    CASE id = "helm" ->
            \E k \in 1..Len(f["Chart.yaml"].dependencies) :
                f["Chart.yaml"].dependencies[k].name = HelmUpdate.key
      [] id = "kustomize" ->
            \E k \in 1..Len(f["kustomization.yaml"]) :
                f["kustomization.yaml"][k] = KustomizeUpdate.key
      [] id = "pre_commit" ->
            \E k \in 1..Len(f[".pre-commit-config.yaml"]) :
                f[".pre-commit-config.yaml"][k].repo = PreCommitUpdate.key
      [] OTHER -> FALSE

PyOutcomes == {"absent", "unchanged", "changed", "failed", "failed_dirty"}

\* BaseAnalyzer.update of the Python analyzer: analyze(update=True), then
\* apply() on the result.  py is what the tree and "make update-deps" do.
PythonAnalyzerUpdate(s, py) ==
    IF py = "absent" THEN s
    ELSE IF s.modified # {}
    THEN [s EXCEPT !.error = "UncommittedChangesError"]
    ELSE IF py = "failed"
    THEN [s EXCEPT !.error = "CalledProcessError",
                   !.io = Bump(@, "subprocs")]
    ELSE IF py = "failed_dirty"
    THEN [s EXCEPT !.error = "CalledProcessError",
                   !.io = Bump(@, "subprocs"),
                   !.files["requirements"] = @ + 1,
                   !.modified = @ \cup {"requirements"}]
    ELSE IF py = "unchanged"
    THEN [s EXCEPT !.io = Bump(@, "subprocs")]
    ELSE LET f == [s.files EXCEPT !["requirements"] = @ + 1]
             i == Bump(s.io, "subprocs")
             o == CHOOSE x \in ApplyOutcomes("python", TRUE, f, i) : TRUE
         IN  [s EXCEPT !.files = o.files, !.io = o.io,
                       !.modified = @ \cup {"requirements"},
                       !.applied["python"] = o.applied,
                       !.calls["python"] = @ + 1,
                       !.raised = o.raised,
                       !.changes = Append(@, "python")]

\* BaseAnalyzer.update of the Helm, Kustomize and pre-commit analyzers: an
\* Update with applied=False for a scanned dependency the inventory has a
\* newer version of, then apply() on it.
AnalyzerUpdate(s, id, newer) ==
    IF s.error # "none" \/ id \notin newer \/ ~Scanned(id, s.files) THEN s
    ELSE LET o == CHOOSE x \in ApplyOutcomes(id, FALSE, s.files, s.io) : TRUE
         IN  [s EXCEPT !.files = o.files, !.io = o.io,
                       !.modified = IF o.files # s.files
                                    THEN @ \cup {UpdateMixin(id).path} ELSE @,
                       !.applied[id] = o.applied,
                       !.calls[id] = @ + 1,
                       !.raised = o.raised,
                       !.error = o.raised,
                       !.changes = IF o.raised = "none"
                                   THEN Append(@, id) ELSE @]

\* Processor.update_checkout: the analyzers in the order of
\* Factory.create_all_analyzers.
UpdateCheckoutResultPythonLast(py, newer) ==
    LET s0 == [files |-> files, modified |-> git.modified, changes |-> <<>>,
               applied |-> updates, io |-> io, raised |-> raised,
               calls |-> calls, error |-> "none"]
        s1 == AnalyzerUpdate(s0, "helm", newer)
        s2 == AnalyzerUpdate(s1, "kustomize", newer)
        s3 == AnalyzerUpdate(s2, "pre_commit", newer)
    IN  IF s3.error # "none" THEN s3 ELSE PythonAnalyzerUpdate(s3, py)

UpdateCheckoutResult(py, newer) ==
    LET s0 == [files |-> files, modified |-> git.modified, changes |-> <<>>,
               applied |-> updates, io |-> io, raised |-> raised,
               calls |-> calls, error |-> "none"]
        s1 == PythonAnalyzerUpdate(s0, py)
        s2 == AnalyzerUpdate(s1, "helm", newer)
        s3 == AnalyzerUpdate(s2, "kustomize", newer)
    IN  AnalyzerUpdate(s3, "pre_commit", newer)

\* _process_one_repository from update_checkout to the test of its result.
UpdateCheckout ==
    /\ pc = "update_checkout"
    /\ \E py \in PyOutcomes, newer \in SUBSET {"helm", "kustomize", "pre_commit"} :
        LET s == UpdateCheckoutResult(py, newer)
        IN  /\ files' = s.files
            /\ updates' = s.applied
            /\ io' = s.io
            /\ raised' = s.raised
            /\ calls' = s.calls
            /\ git' = [git EXCEPT !.modified = s.modified]
            /\ IF s.error # "none"
               THEN Raise(s.error) /\ UNCHANGED prcall
               ELSE /\ cycle' = [cycle EXCEPT !.changes = s.changes]
                    /\ IF s.changes # <<>>
                       THEN /\ pc' = "get_default_branch"
                            /\ prcall' = [NoCall EXCEPT !.state = "running"]
                       ELSE pc' = "restore_branch" /\ UNCHANGED prcall
    /\ UNCHANGED <<repoObj, github, cacheVars, anVars>>

\* make_pull_request raises e.
RaiseInCall(e) ==
    /\ Raise(e)
    /\ prcall' = [prcall EXCEPT !.state = "raised"]

\* PullRequester._get_github_repo and _get_github_default_branch.
GetGithubDefaultBranch ==
    /\ pc = "get_default_branch"
    /\ \E ok \in BOOLEAN :
        IF ok THEN pc' = "get_pr" /\ UNCHANGED <<prcall, cycle>>
        ELSE RaiseInCall("GitHubException")
    /\ UNCHANGED <<git, repoObj, github, updVars, cacheVars, anVars>>

\* The pr_number _get_pr returns for the pull requests the search lists.
GetPrNumberNone(prs) == None

GetPrNumber(prs) == IF prs = <<>> THEN None ELSE Head(prs)

\* PullRequester._get_pr.
GetPr ==
    /\ pc = "get_pr"
    /\ \E ok \in BOOLEAN :
        IF ok
        THEN /\ prcall' = [prcall EXCEPT !.found = github.open,
                                         !.pr_number = GetPrNumber(github.open)]
             /\ pc' = "commit_changes"
             /\ UNCHANGED cycle
        ELSE RaiseInCall("GitHubException")
    /\ UNCHANGED <<git, repoObj, github, updVars, cacheVars, anVars>>

\* The paths _commit_changes adds to the index: str(change.path) of each
\* change, whatever else the working tree has modified.
IndexAddModified(changes, modified) ==
    modified \cup {UpdateMixin(changes[k]).path : k \in 1..Len(changes)}

IndexAdd(changes, modified) ==
    {UpdateMixin(changes[k]).path : k \in 1..Len(changes)}


\* PullRequester._commit_changes: the actor from GET /user, index.add of
\* each change's path, index.commit on the current branch.
CommitChanges ==
    /\ pc = "commit_changes"
    /\ \E ok \in BOOLEAN :
        IF ok
        THEN LET staged == IndexAdd(cycle.changes, git.modified)
             IN  /\ git' = [git EXCEPT
                        !.modified = @ \ staged,
                        !.commits = Append(@, [branch |-> git.head,
                                               paths |-> staged])]
                 /\ prcall' = [prcall EXCEPT !.staged = staged]
                 /\ pc' = "push_branch"
                 /\ UNCHANGED cycle
        ELSE RaiseInCall("GitHubException") /\ UNCHANGED git
    /\ UNCHANGED <<repoObj, github, updVars, cacheVars, anVars>>

\* PullRequester._push_branch up to the try: Remote.add.
AddRemote ==
    /\ pc = "push_branch"
    /\ IF TmpRemote \in git.remotes
       THEN RaiseInCall("GitCommandError") /\ UNCHANGED git
       ELSE /\ git' = [git EXCEPT !.remotes = @ \cup {TmpRemote}]
            /\ prcall' = [prcall EXCEPT !.remote_added = TRUE]
            /\ pc' = "push"
            /\ UNCHANGED cycle
    /\ UNCHANGED <<repoObj, github, updVars, cacheVars, anVars>>

PushResults == {"ok", "ERROR", "GitCommandError"}

\* The remotes when the try statement of _push_branch is left.
PushFinallyKeep(remotes, result) ==
    IF result = "ok" THEN remotes \ {TmpRemote} ELSE remotes

PushFinally(remotes, result) == remotes \ {TmpRemote}

\* What the scan of push_info raises for a push that returned.
PushRaisesNever(result) == "none"

PushRaises(result) == IF result = "ERROR" THEN "PushError" ELSE "none"

\* The test of pr_number in make_pull_request: the step after the push.
CreateOrUpdateAlwaysCreate(pr_number) == "create_pr"

CreateOrUpdate(pr_number) ==
    IF pr_number # None THEN "update_pr" ELSE "create_pr"

\* PullRequester._push_branch from the try on, and the test of pr_number
\* in make_pull_request.
Push ==
    /\ pc = "push"
    /\ \E result \in PushResults :
        LET e == IF result = "GitCommandError" THEN "GitCommandError"
                 ELSE PushRaises(result)
        IN  /\ git' = [git EXCEPT
                    !.pushes = Append(@, [refspec |-> git.head, force |-> TRUE]),
                    !.remotes = PushFinally(@, result)]
            /\ IF e # "none"
               THEN /\ Raise(e)
                    /\ prcall' = [prcall EXCEPT !.push = result,
                                                !.state = "raised"]
               ELSE /\ prcall' = [prcall EXCEPT !.push = result]
                    /\ pc' = CreateOrUpdate(prcall.pr_number)
                    /\ UNCHANGED cycle
    /\ UNCHANGED <<repoObj, github, updVars, cacheVars, anVars>>

\* PullRequester._update_pr up to _enable_auto_merge: one PATCH.
UpdatePr ==
    /\ pc = "update_pr"
    /\ \E ok \in BOOLEAN :
        /\ IF ok
           THEN /\ prcall' = [prcall EXCEPT
                        !.patches = Append(@, prcall.pr_number),
                        !.number = prcall.pr_number]
                /\ pc' = "enable_auto_merge"
                /\ UNCHANGED cycle
           ELSE /\ Raise("GitHubException")
                /\ prcall' = [prcall EXCEPT
                        !.patches = Append(@, prcall.pr_number),
                        !.state = "raised"]
    /\ UNCHANGED <<git, repoObj, github, updVars, cacheVars, anVars>>

\* PullRequester._create_pr up to _enable_auto_merge: one POST; GitHub
\* opens the pull request and answers with its number.
CreatePr ==
    /\ pc = "create_pr"
    /\ \E ok \in BOOLEAN :
        /\ IF ok
           THEN /\ github' = [github EXCEPT !.open = Append(@, github.next),
                                            !.next = @ + 1]
                /\ prcall' = [prcall EXCEPT !.posts = @ + 1,
                                            !.number = github.next]
                /\ pc' = "enable_auto_merge"
                /\ UNCHANGED cycle
           ELSE /\ Raise("GitHubException")
                /\ prcall' = [prcall EXCEPT !.posts = @ + 1,
                                            !.state = "raised"]
                /\ UNCHANGED github
    /\ UNCHANGED <<git, repoObj, updVars, cacheVars, anVars>>

\* Answers of the GraphQL endpoint to the node-id query and to the
\* enablePullRequestAutoMerge mutation.
IdAnswers == {"id", "no_id", "QueryError", "HTTPException"}
MergeAnswers == {"ok", "QueryError", "HTTPException"}

\* The exception that leaves _enable_auto_merge: only QueryError is caught.
\* A response without a pull request id fails the subscript
\* response["repository"]["pullRequest"]["id"] with TypeError.
AutoMergeRaises(a1, a2) ==
    IF a1 = "HTTPException" THEN "HTTPException"
    ELSE IF a1 = "no_id" THEN "TypeError"
    ELSE IF a1 = "QueryError" THEN "none"
    ELSE IF a2 = "HTTPException" THEN "HTTPException"
    ELSE "none"

\* PullRequester._enable_auto_merge, and the return of make_pull_request.
EnableAutoMerge ==
    /\ pc = "enable_auto_merge"
    /\ \E a1 \in IdAnswers, a2 \in MergeAnswers :
        LET e == AutoMergeRaises(a1, a2)
            requests == IF a1 = "id" THEN 2 ELSE 1
            outcome == IF a1 # "id" THEN a1 ELSE a2
        IN  /\ github' = IF a1 = "id" /\ a2 = "ok"
                         THEN [github EXCEPT
                                 !.auto_merge = @ \cup {prcall.number}]
                         ELSE github
            /\ IF e # "none"
               THEN /\ Raise(e)
                    /\ prcall' = [prcall EXCEPT !.graphql = @ + requests,
                                                !.auto_merge = outcome,
                                                !.state = "raised"]
               ELSE /\ prcall' = [prcall EXCEPT !.graphql = @ + requests,
                                                !.auto_merge = outcome,
                                                !.state = "returned"]
                    /\ cycle' = [cycle EXCEPT !.pr_returned = @ + 1]
                    /\ pc' = "restore_branch"
    /\ UNCHANGED <<git, repoObj, updVars, cacheVars, anVars>>

(***************************************************************************)
(* Cached Helm inventory (CachedHelmInventory)                             *)
(***************************************************************************)
LIFETIME == 24 * 60 * 60

\* The instants time.time() is read at: around each multiple of LIFETIME.
Times ==
    {t \in {k * LIFETIME + j : k \in 0..MaxDays, j \in {-1, 0, 1}} : t >= 0}

\* A repository URL is its base followed by "", "/" or "/index.yaml".
Bases == {"https://example.com/charts", "https://lsst-sqre.github.io/charts"}
Url(base, suffix) == [base |-> base, suffix |-> suffix]
Urls == {Url(b, x) : b \in Bases, x \in {"", "/", "/index.yaml"}}

\* What an index can advertise: chart name -> latest version.
Inventories ==
    { [gafaelfawr |-> "1.3.1"], [gafaelfawr |-> "1.4.0"] }

\* HelmInventory.canonicalize_url
canonicalize_urlAsGiven(url) == url

canonicalize_url(url) ==
    IF url.suffix = "/index.yaml" THEN url
    ELSE LET slashed == IF url.suffix # "/" THEN Url(url.base, "/") ELSE url
         IN  Url(slashed.base, "/index.yaml")

\* The test "age + self._LIFETIME > now" on a cache entry.
FreshInclusive(entry, t) == entry.timestamp + LIFETIME >= t

FreshNoLifetime(entry, t) == entry.timestamp > t

Fresh(entry, t) == entry.timestamp + LIFETIME > t

NoInventoryCall ==
    [n |-> 0, url |-> "none", outcome |-> "none", result |-> "none",
     fetches |-> 0, prior |-> -1]

\* CachedHelmInventory._load_cache: the cache a new instance starts with.
LoadCache(file) ==
    IF file = {} THEN <<>> ELSE CHOOSE data \in file : TRUE

\* dict assignment self._cache[url] = entry
StoreAlone(c, url, entry) == [k \in {url} |-> entry]

Store(c, url, entry) ==
    [k \in DOMAIN c \cup {url} |-> IF k = url THEN entry ELSE c[k]]

\* self._cache when "await super().inventory(url)" has raised: the
\* statements after it are not reached.
FailedFetchEvicts(c, url) == [k \in DOMAIN c \ {url} |-> c[k]]

FailedFetch(c, url) == c

\* The cache files a run of the tool can find: none, or the one an earlier
\* run saved.
CacheFiles ==
    { {},
      {Store(<<>>, Url("https://example.com/charts", "/index.yaml"),
             [timestamp |-> 0, versions |-> [gafaelfawr |-> "1.3.1"]])} }

InitCache ==
    /\ cacheFile \in CacheFiles
    /\ cache = LoadCache(cacheFile)
    /\ now = 0
    /\ upstream \in [{canonicalize_url(u) : u \in Urls} -> Inventories]
    /\ inv = NoInventoryCall

\* CachedHelmInventory.inventory(u): ok is whether the fetch of the index
\* succeeds when one is made.
Inventory(u, ok) ==
    /\ inv.n < MaxInventoryCalls
    /\ LET url == canonicalize_url(u)
           prior == IF url \in DOMAIN cache THEN cache[url].timestamp ELSE -1
       IN  IF url \in DOMAIN cache /\ Fresh(cache[url], now)
           THEN /\ inv' = [n |-> inv.n + 1, url |-> u, outcome |-> "cached",
                           result |-> cache[url].versions, fetches |-> 0,
                           prior |-> prior]
                /\ UNCHANGED <<cache, cacheFile>>
           ELSE IF ok
           THEN LET result == upstream[url]
                    new == Store(cache, url,
                                 [timestamp |-> now, versions |-> result])
                IN  /\ cache' = new
                    /\ cacheFile' = {new}
                    /\ inv' = [n |-> inv.n + 1, url |-> u,
                               outcome |-> "fetched", result |-> result,
                               fetches |-> 1, prior |-> prior]
           ELSE /\ inv' = [n |-> inv.n + 1, url |-> u,
                           outcome |-> "ClientError", result |-> "none",
                           fetches |-> 1, prior |-> prior]
                /\ cache' = FailedFetch(cache, url)
                /\ UNCHANGED cacheFile
    /\ UNCHANGED <<now, upstream, updVars, cycleVars, anVars>>

\* Time passes.
Tick ==
    /\ \E t \in Times : t > now /\ now' = t
    /\ UNCHANGED <<cache, cacheFile, upstream, inv, updVars, cycleVars, anVars>>

\* A Helm repository publishes a new index.
Publish ==
    /\ \E url \in DOMAIN upstream, i \in Inventories :
        /\ upstream[url] # i
        /\ upstream' = [upstream EXCEPT ![url] = i]
    /\ UNCHANGED <<cache, cacheFile, now, inv, updVars, cycleVars, anVars>>

(***************************************************************************)
(* Versions (neophile/inventory/version.py, semver, packaging)             *)
(***************************************************************************)
Parts == 0..MaxPart

\* semver.VersionInfo: major, minor, patch and the prerelease ("" for a
\* release).
VersionInfos ==
    [major : Parts, minor : Parts, patch : Parts, pre : {"", "rc"}]

\* The operators semver's match() reads, "" for no operator, and "^" for a
\* prefix it does not read (Helm's caret range).
MatchOps == {">=", "<=", "==", "!=", ">", "<"}
Ops == {""} \cup MatchOps \cup {"^"}

\* A version string is modelled by its structure: v leading "v" characters,
\* an operator prefix and the text of a semantic version.  "v1.3.1" is
\* Str(1, "", V(1, 3, 1, "")), ">=3.0.0" is Str(0, ">=", V(3, 0, 0, "")).
V(major, minor, patch, pre) ==
    [major |-> major, minor |-> minor, patch |-> patch, pre |-> pre]
Str(v, op, ver) == [v |-> v, op |-> op, ver |-> ver]

\* string[1:] if string.startswith("v") else string
StripV(string) ==
    IF string.v > 0 THEN [string EXCEPT !.v = @ - 1] ELSE string

\* VersionInfo.isvalid(string): the whole string is a semantic version.
VersionInfoIsValid(string) == string.v = 0 /\ string.op = ""

\* VersionInfo.parse(string), for a string that is valid (it raises
\* ValueError on any other).
VersionInfoParse(string) == string.ver

\* VersionInfo.compare: -1, 0 or 1.  A prerelease precedes its release.
VersionInfoCompare(a, b) ==
    IF a.major # b.major THEN (IF a.major < b.major THEN -1 ELSE 1)
    ELSE IF a.minor # b.minor THEN (IF a.minor < b.minor THEN -1 ELSE 1)
    ELSE IF a.patch # b.patch THEN (IF a.patch < b.patch THEN -1 ELSE 1)
    ELSE IF a.pre = b.pre THEN 0
    ELSE IF a.pre = "" THEN 1
    ELSE -1

\* VersionInfo.match(match_expr) for an expression semver reads: the
\* operator, then a string VersionInfo.parse accepts.
VersionInfoMatch(parsed, op, ver) ==
    LET c == VersionInfoCompare(parsed, ver)
    IN  CASE op = ">=" -> c \in {0, 1}
          [] op = "<=" -> c \in {-1, 0}
          [] op = "==" -> c = 0
          [] op = "!=" -> c \in {-1, 1}
          [] op = ">" -> c = 1
          [] op = "<" -> c = -1

\* SemanticVersion.is_valid
SemanticVersionIsValid(string) == VersionInfoIsValid(StripV(string))

\* SemanticVersion.from_str, for a string that is valid.
SemanticVersionFromStr(string) ==
    [parsed_version |-> VersionInfoParse(StripV(string)), version |-> string]

\* The order of the dataclass (order=True): parsed_version first, then the
\* raw string; of two raw strings with the same text the one with the
\* leading "v" is the greater.
ParsedVersionLess(a, b) ==
    LET c == VersionInfoCompare(a.parsed_version, b.parsed_version)
    IN  c < 0 \/ (c = 0 /\ a.version.v < b.version.v)

\* max(versions) of a non-empty collection
MaxVersion(versions) ==
    CHOOSE m \in versions : \A x \in versions : ~ParsedVersionLess(m, x)

\* PackagingVersion.is_valid
PackagingVersionIsValid(string) == TRUE

\* packaging.version.parse reads a string with at most one leading "v" and
\* no operator as a Version; any other string is a LegacyVersion.
IsLegacy(string) == string.v > 1 \/ string.op # ""

\* PackagingVersion.from_str
PackagingVersionFromStr(string) ==
    [parsed_version |-> [legacy |-> IsLegacy(string), ver |-> string.ver],
     version |-> string]

\* The order of PackagingVersion: a LegacyVersion precedes every Version;
\* two Versions compare by release and prerelease, then by the raw string.
PackagingVersionLess(a, b) ==
    IF a.parsed_version.legacy # b.parsed_version.legacy
    THEN a.parsed_version.legacy
    ELSE IF a.parsed_version.legacy THEN FALSE
    ELSE LET c == VersionInfoCompare(a.parsed_version.ver,
                                     b.parsed_version.ver)
         IN  c < 0 \/ (c = 0 /\ a.version.v < b.version.v)

MaxPackagingVersion(versions) ==
    CHOOSE m \in versions : \A x \in versions : ~PackagingVersionLess(m, x)

(***************************************************************************)
(* GitHub tag inventory (GitHubInventory)                                  *)
(***************************************************************************)
\* Names a tag of the repository can have: versions with and without the
\* leading "v", a prerelease, and a name that is no version.
TagNames ==
    { Str(0, "", V(1, 0, 0, "")), Str(1, "", V(1, 0, 0, "")),
      Str(0, "", V(1, 1, 0, "")), Str(0, "", V(1, 1, 0, "rc")),
      Str(0, "^", V(1, 0, 0, "")) }

TagLists ==
    {<<>>} \cup {<<a>> : a \in TagNames}
           \cup {<<a, b>> : a \in TagNames, b \in TagNames}

\* What the request for the tags ends in: the list of tags ("none"), a
\* transport error (aiohttp.ClientError), an HTTP 4xx answer
\* (gidgethub.BadRequest) or a tag object without a name (KeyError).
GitHubErrors == {"none", "ClientError", "BadRequest", "KeyError"}

GitHubResponses ==
    {[error |-> e, names |-> IF e = "none" THEN l ELSE <<>>] :
        e \in GitHubErrors, l \in TagLists}

\* The value inventory() returns (None or a tag name) or the exception it
\* raises.
GitHubResult(returned, value, e) ==
    [returned |-> returned, value |-> value, raised |-> e]

NoTag == Str(0, "", V(0, 0, 0, ""))

\* GitHubInventory.inventory(owner, repo, semantic) when the tag request
\* ends in response.
GitHubInventoryInventory(response, semantic) ==
    LET names == {response.names[k] : k \in 1..Len(response.names)}
        versions ==
            IF semantic
            THEN {SemanticVersionFromStr(n) :
                    n \in {x \in names : SemanticVersionIsValid(x)}}
            ELSE {PackagingVersionFromStr(n) :
                    n \in {x \in names : PackagingVersionIsValid(x)}}
    IN  IF response.error = "ClientError"
        THEN GitHubResult("None", NoTag, "none")
        ELSE IF response.error # "none"
        THEN GitHubResult("nothing", NoTag, response.error)
        ELSE IF versions # {}
        THEN GitHubResult("str",
                          IF semantic THEN MaxVersion(versions).version
                          ELSE MaxPackagingVersion(versions).version,
                          "none")
        ELSE GitHubResult("None", NoTag, "none")

NoGitHubCall ==
    [called |-> FALSE, semantic |-> FALSE, returned |-> "nothing",
     value |-> NoTag, raised |-> "none"]

InitGitHub ==
    /\ tags \in GitHubResponses
    /\ ghinv = NoGitHubCall

\* One call of inventory(owner, repo, semantic).
GitHubInventoryCall(semantic) ==
    /\ LET r == GitHubInventoryInventory(tags, semantic)
       IN  ghinv' = [called |-> TRUE, semantic |-> semantic,
                     returned |-> r.returned, value |-> r.value,
                     raised |-> r.raised]
    /\ UNCHANGED <<taskVars, tags, pyVars, helmVars, treeVars, updVars,
                   cycleVars, cacheVars>>

\* The repository gets, loses or renames tags, or GitHub answers
\* differently.
GitHubChange ==
    /\ \E r \in GitHubResponses : r # tags /\ tags' = r
    /\ UNCHANGED <<taskVars, ghinv, pyVars, helmVars, treeVars, updVars,
                   cycleVars, cacheVars>>

(***************************************************************************)
(* Helm analysis (HelmScanner, HelmInventory, HelmAnalyzer)                *)
(***************************************************************************)
ChartNames == {"gafaelfawr", "kibana"}

\* A dependency entry of Chart.yaml, and the HelmDependency made of it.
HelmDependency(name, repository, version) ==
    [name |-> name, repository |-> repository, version |-> version,
     path |-> "Chart.yaml"]

\* HelmScanner.scan: one leading "v" of the declared version is dropped.
HelmScannerScan(chart) ==
    [k \in 1..Len(chart) |-> [chart[k] EXCEPT !.version = StripV(@)]]

\* A release listed by an index is a mapping; a well-formed one has the key
\* "version", whose value is a string.
Release(version) == [version |-> version]
Unversioned == [digest |-> "sha256"]

\* HelmInventory.inventory on an index that was fetched and parsed: for
\* each chart with a valid release, the raw string of its greatest one.
HelmInventoryInventoryStrict(index) ==
    LET Usable(name) ==
            \A y \in index.entries[name] :
                "version" \in DOMAIN y /\ SemanticVersionIsValid(y.version)
        Valid(name) ==
            {SemanticVersionFromStr(y.version) : y \in index.entries[name]}
    IN  IF \A n \in ChartNames : Usable(n)
        THEN [name \in {n \in ChartNames : Valid(n) # {}} |->
                MaxVersion(Valid(name)).version]
        ELSE <<>>
HelmInventoryInventory(index) ==
    LET Valid(name) ==
            {SemanticVersionFromStr(y.version) :
                y \in {x \in index.entries[name] :
                          /\ "version" \in DOMAIN x
                          /\ SemanticVersionIsValid(x.version)}}
    IN  [name \in {n \in ChartNames : Valid(n) # {}} |->
            MaxVersion(Valid(name)).version]

\* What _helm_needs_update returns or raises.
NeedsUpdate(value, e) == [value |-> value, raised |-> e]

\* HelmAnalyzer._helm_needs_update.  "latest.parsed_version > current" and
\* "latest.parsed_version.match(current)" hand the string current to
\* semver, which raises ValueError on a string it cannot parse.
helm_needs_update(allow_expressions, current, latest_str) ==
    LET latest == SemanticVersionFromStr(latest_str)
    IN  IF SemanticVersionIsValid(current)
        THEN IF VersionInfoIsValid(current)
             THEN NeedsUpdate(
                      VersionInfoCompare(latest.parsed_version,
                                         VersionInfoParse(current)) > 0,
                      "none")
             ELSE NeedsUpdate(FALSE, "ValueError")
        ELSE IF allow_expressions
        THEN IF current.v = 0 /\ current.op \in MatchOps
             THEN NeedsUpdate(
                      ~VersionInfoMatch(latest.parsed_version, current.op,
                                        current.ver),
                      "none")
             ELSE NeedsUpdate(FALSE, "ValueError")
        ELSE NeedsUpdate(TRUE, "none")

\* One pass of the loop over the dependencies: what the analyzer saw and
\* what came of it ("absent": the chart is not in the inventory; "update":
\* an Update is emitted; "current": none is needed; or the exception).
Verdict(k, d, latest_str, result) ==
    [dep |-> k, current |-> d.version, latest |-> latest_str,
     result |-> result]

DependencyVerdict(allow_expressions, k, d, latest) ==
    IF d.name \notin DOMAIN latest[d.repository]
    THEN Verdict(k, d, NoTag, "absent")
    ELSE LET latest_str == latest[d.repository][d.name]
             n == helm_needs_update(allow_expressions, d.version, latest_str)
         IN  IF n.raised # "none" THEN Verdict(k, d, latest_str, n.raised)
             ELSE IF n.value THEN Verdict(k, d, latest_str, "update")
             ELSE Verdict(k, d, latest_str, "current")

\* The HelmUpdate built for the dependency of a verdict.
HelmUpdateOf(d, e) ==
    [kind |-> "helm", path |-> d.path, applied |-> FALSE, name |-> d.name,
     current |-> e.current, latest |-> e.latest, dep |-> e.dep]

Positions(n) == [k \in 1..n |-> k]

LoopResult(verdicts, results, e) ==
    [verdicts |-> verdicts, results |-> results, raised |-> e]

\* The loop of HelmAnalyzer.analyze over the scanned dependencies, given
\* the inventories: it runs to the end, or to the first dependency whose
\* predicate raises.
HelmAnalyzerLoopBreak(allow_expressions, dependencies, latest) ==
    LET n     == Len(dependencies)
        all   == [k \in 1..n |->
                    DependencyVerdict(allow_expressions, k,
                                      dependencies[k], latest)]
        stops == {k \in 1..n : all[k].result \in {"ValueError", "absent"}}
        stop  == IF stops = {} THEN 0
                 ELSE CHOOSE k \in stops : \A j \in stops : k <= j
        seen  == IF stop = 0 THEN n ELSE stop
        Needed(k) == k <= seen /\ all[k].result = "update"
        sel   == SelectSeq(Positions(n), Needed)
    IN  IF stop # 0 /\ all[stop].result = "ValueError"
        THEN LoopResult(SubSeq(all, 1, stop), <<>>, "ValueError")
        ELSE LoopResult(SubSeq(all, 1, seen),
                        [j \in 1..Len(sel) |->
                            HelmUpdateOf(dependencies[sel[j]], all[sel[j]])],
                        "none")

HelmAnalyzerLoop(allow_expressions, dependencies, latest) ==
    LET n     == Len(dependencies)
        all   == [k \in 1..n |->
                    DependencyVerdict(allow_expressions, k,
                                      dependencies[k], latest)]
        stops == {k \in 1..n : all[k].result = "ValueError"}
        stop  == IF stops = {} THEN 0
                 ELSE CHOOSE k \in stops : \A j \in stops : k <= j
        Needed(k) == all[k].result = "update"
        sel   == SelectSeq(Positions(n), Needed)
    IN  IF stop # 0
        THEN LoopResult(SubSeq(all, 1, stop), <<>>, "ValueError")
        ELSE LoopResult(all,
                        [j \in 1..Len(sel) |->
                            HelmUpdateOf(dependencies[sel[j]], all[sel[j]])],
                        "none")

\* What fetching and parsing the index of a repository ends in.
IndexErrors == {"none", "ClientError", "YAMLError"}

\* What analyze() returns or raises, what its loop saw, the inventories it
\* obtained and how often it asked for the inventory of each repository.
NoAnalysis ==
    [called |-> FALSE, allow_expressions |-> FALSE, update |-> FALSE,
     verdicts |-> <<>>, results |-> <<>>, raised |-> "none", latest |-> <<>>,
     fetches |-> [r \in Bases |-> 0]]

\* HelmAnalyzer.analyze.  When indexes of several repositories fail, bad is
\* the one the loop over the set of repositories reaches first and before
\* are the repositories it inventoried until then.
HelmAnalyzerAnalyze(allow_expressions, chart, index, bad, before) ==
    LET dependencies == HelmScannerScan(chart)
        repositories ==
            {dependencies[k].repository : k \in 1..Len(dependencies)}
        latest == [r \in repositories |-> HelmInventoryInventory(index[r])]
        loop == HelmAnalyzerLoop(allow_expressions, dependencies, latest)
    IN  IF bad # "none"
        THEN [called |-> TRUE, allow_expressions |-> allow_expressions,
              update |-> FALSE, verdicts |-> <<>>, results |-> <<>>,
              raised |-> index[bad].error,
              latest |-> [r \in before |-> latest[r]],
              fetches |-> [r \in Bases |->
                             IF r \in before \cup {bad} THEN 1 ELSE 0]]
        ELSE [called |-> TRUE, allow_expressions |-> allow_expressions,
              update |-> FALSE, verdicts |-> loop.verdicts, results |-> loop.results,
              raised |-> loop.raised, latest |-> latest,
              fetches |-> [r \in Bases |->
                             IF r \in repositories THEN 1 ELSE 0]]

\* The versions a Chart.yaml can declare: a version with up to two leading
\* "v", or an operator and a version.
RawPins == {Str(v, "", x) : v \in 0..2, x \in VersionInfos}
           \cup {Str(0, op, x) : op \in Ops \ {""}, x \in VersionInfos}

\* The releases an index can list as the only one of a chart.
Releases == {Str(v, "", x) : v \in 0..1, x \in VersionInfos}

Index(error, gafaelfawr, kibana) ==
    [error |-> error,
     entries |-> [n \in ChartNames |->
                    IF n = "gafaelfawr" THEN gafaelfawr ELSE kibana]]

\* Trees with one dependency, of any declared version, on a chart whose
\* repository lists one release.
InitHelmPins ==
    \E pin \in RawPins, release \in Releases :
        /\ charts = <<HelmDependency("gafaelfawr",
                                     "https://lsst-sqre.github.io/charts",
                                     pin)>>
        /\ indexes = [r \in Bases |->
                        IF r = "https://lsst-sqre.github.io/charts"
                        THEN Index("none", {Release(release)}, {})
                        ELSE Index("none", {}, {})]

\* Trees with up to two dependencies on two repositories, each of which
\* fails or lists none, one or several releases of each chart.
CatalogPins ==
    { Str(0, "", V(1, 0, 0, "")), Str(0, ">=", V(1, 0, 0, "")),
      Str(0, "^", V(1, 0, 0, "")) }

CatalogDependencies ==
    {HelmDependency(n, r, p) : n \in ChartNames, r \in Bases,
                               p \in CatalogPins}

CatalogEntries ==
    { {}, {Release(Str(0, "", V(1, 0, 0, "")))},
      {Release(Str(0, "", V(1, 1, 0, ""))),
       Release(Str(1, "", V(1, 0, 0, "")))} }

CatalogIndexes ==
    {Index("none", g, k) : g \in CatalogEntries, k \in CatalogEntries}
    \cup {Index(e, {}, {}) : e \in IndexErrors \ {"none"}}

InitHelmCatalog ==
    /\ charts \in {<<>>} \cup {<<a>> : a \in CatalogDependencies}
                  \cup {<<a, b>> : a \in CatalogDependencies,
                                  b \in CatalogDependencies}
    /\ indexes \in [Bases -> CatalogIndexes]

\* Trees with one dependency on a repository whose index lists, for each
\* chart, any of a few releases: valid ones with and without the leading
\* "v", one whose version is no semantic version, one without a version.
ReleasePool ==
    { Release(Str(0, "", V(1, 0, 0, ""))), Release(Str(1, "", V(1, 0, 0, ""))),
      Release(Str(0, "", V(0, 1, 0, "rc"))),
      Release(Str(2, "", V(1, 1, 1, ""))),
      Unversioned }

InitHelmReleases ==
    \E g \in SUBSET ReleasePool, k \in SUBSET ReleasePool :
        /\ charts = <<HelmDependency("gafaelfawr",
                                     "https://lsst-sqre.github.io/charts",
                                     Str(0, "", V(1, 0, 0, "")))>>
        /\ indexes = [r \in Bases |->
                        IF r = "https://lsst-sqre.github.io/charts"
                        THEN Index("none", g, k)
                        ELSE Index("none", {}, {})]

InitHelm ==
    /\ InitHelmPins \/ InitHelmCatalog \/ InitHelmReleases
    /\ analysis = NoAnalysis

\* The call of analyzer.analyze(update=update) with the given expression
\* mode; analyze ignores the argument.  It keeps nothing from one call to
\* the next, so a behaviour follows one call.
HelmAnalyze(allow_expressions, update) ==
    /\ ~analysis.called
    /\ LET used == {charts[k].repository : k \in 1..Len(charts)}
           failing == {r \in used : indexes[r].error # "none"}
       IN  \E bad \in (IF failing = {} THEN {"none"} ELSE failing),
              before \in SUBSET (used \ failing) :
              analysis' = [HelmAnalyzerAnalyze(allow_expressions, charts,
                                               indexes, bad, before)
                              EXCEPT !.update = update]
    /\ UNCHANGED <<taskVars, charts, indexes, pyVars, ghVars, treeVars,
                   updVars, cycleVars, cacheVars>>

(***************************************************************************)
(* Python frozen dependencies (PythonAnalyzer, BaseAnalyzer.update)        *)
(***************************************************************************)
\* The trees PythonAnalyzer is run on: whether Makefile and
\* requirements/main.in exist, the committed and the working-tree content
\* of the frozen requirements, and whether another tracked file has
\* uncommitted changes.
PythonTrees ==
    [makefile : BOOLEAN, main_in : BOOLEAN, head : RequirementsContents,
     requirements : RequirementsContents, other : BOOLEAN]

\* repo.is_dirty(): a tracked file differs from the commit.
IsDirty(t) == t.requirements # t.head \/ t.other

\* repo.git.restore("."): tracked files go back to their committed content.
GitRestoreNothing(t) == t

GitRestore(t) == [t EXCEPT !.requirements = t.head, !.other = FALSE]

\* What one call returns or raises, the tree it leaves, how many times it
\* ran "make update-deps", and how the last run ended (exit -1: never run).
PyResult(t, results, e, makes, exit, generated) ==
    [tree |-> t, results |-> results, raised |-> e, makes |-> makes,
     exit |-> exit, generated |-> generated]

\* PythonAnalyzer.analyze(update): "make update-deps" ends with status exit
\* and leaves the frozen requirements at content.
PythonAnalyzerAnalyzeUnchecked(t, update, exit, content) ==
    LET t1 == [t EXCEPT !.requirements = content]
    IN  IF ~t.makefile \/ ~t.main_in
        THEN PyResult(t, <<>>, "none", 0, -1, t.requirements)
        ELSE IF exit # 0
        THEN PyResult(t1, <<>>, "CalledProcessError", 1, exit, content)
        ELSE IF ~IsDirty(t1)
        THEN PyResult(t1, <<>>, "none", 1, exit, content)
        ELSE PyResult(IF update THEN t1 ELSE GitRestore(t1),
                      <<[kind |-> "python", applied |-> update]>>,
                      "none", 1, exit, content)

PythonAnalyzerAnalyze(t, update, exit, content) ==
    LET t1 == [t EXCEPT !.requirements = content]
    IN  IF ~t.makefile \/ ~t.main_in
        THEN PyResult(t, <<>>, "none", 0, -1, t.requirements)
        ELSE IF IsDirty(t)
        THEN PyResult(t, <<>>, "UncommittedChangesError", 0, -1,
                      t.requirements)
        ELSE IF exit # 0
        THEN PyResult(t1, <<>>, "CalledProcessError", 1, exit, content)
        ELSE IF ~IsDirty(t1)
        THEN PyResult(t1, <<>>, "none", 1, exit, content)
        ELSE PyResult(IF update THEN t1 ELSE GitRestore(t1),
                      <<[kind |-> "python", applied |-> update]>>,
                      "none", 1, exit, content)

\* BaseAnalyzer.update of the Python analyzer: analyze(update=True), then
\* apply() on each result; a "make update-deps" run by apply() ends with
\* status exit2 and content content2.
PythonAnalyzerUpdateCall(t, exit, content, exit2, content2) ==
    LET a == PythonAnalyzerAnalyze(t, TRUE, exit, content)
    IN  IF a.raised # "none" \/ a.results = <<>> THEN a
        ELSE LET o == PythonFrozenUpdateApply(
                          PythonFrozenUpdate, a.results[1].applied,
                          [requirements |-> a.tree.requirements],
                          [NoIO EXCEPT !.subprocs = a.makes],
                          exit2 = 0, content2)
             IN  PyResult([a.tree EXCEPT
                              !.requirements = o.files["requirements"]],
                          <<[kind |-> "python", applied |-> o.applied]>>,
                          o.raised, o.io.subprocs,
                          IF o.io.subprocs > a.makes THEN exit2 ELSE exit,
                          IF o.io.subprocs > a.makes THEN content2
                          ELSE content)

\* Exit statuses of "make update-deps".
ExitStatuses == {0, 2}

NoPyCall ==
    [n |-> 0, op |-> "none", update |-> FALSE, results |-> <<>>,
     raised |-> "none", makes |-> 0, exit |-> -1, generated |-> 0]

InitPython ==
    /\ pytree \in PythonTrees
    /\ pycall = NoPyCall

PyRecord(op, update, r) ==
    /\ pytree' = r.tree
    /\ pycall' = [n |-> pycall.n + 1, op |-> op, update |-> update,
                  results |-> r.results, raised |-> r.raised,
                  makes |-> r.makes, exit |-> r.exit,
                  generated |-> r.generated]

\* One call of analyzer.analyze(update=update).
PyAnalyze(update) ==
    /\ pycall.n < MaxPyCalls
    /\ \E exit \in ExitStatuses, content \in RequirementsContents :
          PyRecord("analyze", update,
                   PythonAnalyzerAnalyze(pytree, update, exit, content))
    /\ UNCHANGED <<taskVars, ghVars, helmVars, treeVars, updVars, cycleVars,
                   cacheVars>>

\* One call of analyzer.update().
PyUpdate ==
    /\ pycall.n < MaxPyCalls
    /\ \E exit \in ExitStatuses, content \in RequirementsContents,
          exit2 \in ExitStatuses, content2 \in RequirementsContents :
          PyRecord("update", TRUE,
                   PythonAnalyzerUpdateCall(pytree, exit, content,
                                            exit2, content2))
    /\ UNCHANGED <<taskVars, ghVars, helmVars, treeVars, updVars, cycleVars,
                   cacheVars>>

\* The user commits the working tree (as tests/analysis/python_test.py
\* does between two analyses).
PyCommit ==
    /\ IsDirty(pytree)
    /\ pytree' = [pytree EXCEPT !.head = pytree.requirements,
                                !.other = FALSE]
    /\ UNCHANGED <<taskVars, pycall, ghVars, helmVars, treeVars, updVars,
                   cycleVars, cacheVars>>

(***************************************************************************)
(* Kustomize and pre-commit analysis (scanners, analyzers, their Updates)  *)
(***************************************************************************)
TreePaths == {"kustomization.yaml", ".pre-commit-config.yaml"}

\* The GitHub repositories the trees of the model refer to, as owner/repo.
GitHubRepos ==
    {"lsst-sqre/sqrbot", "lsst-sqre/semaphore", "ambv/black",
     "pre-commit/pre-commit-hooks"}

\* The tags of the model, and what GitHubInventory.inventory(owner, repo)
\* ends in: a tag, None, or an exception it does not catch.
Refs == {"0.6.0", "0.7.0"}
Answers == {"None", "BadRequest"} \cup Refs

\* KustomizeScanner._RESOURCE_REGEX, "github.com/([^/]+)/([^/.]+).*?ref=(.*)":
\* the owner and repository of a resource the regex matches ("none" for a
\* stem that does not start with github.com/<owner>/<repo>).
RepoOf(stem) ==
    CASE stem \in {"github.com/lsst-sqre/sqrbot//manifests",
                   "github.com/lsst-sqre/sqrbot//manifests/extra",
                   "github.com/lsst-sqre/sqrbot//manifests?timeout=90"} ->
            "lsst-sqre/sqrbot"
      [] stem = "github.com/lsst-sqre/semaphore//manifests" ->
            "lsst-sqre/semaphore"
      [] OTHER -> "none"

\* KustomizeScanner._build_kustomize_dependencies: one dependency for each
\* resource the regex matches, in file order; the version is the text after
\* "ref=", whatever character precedes it.
KustomizeDependency(resource) ==
    [url |-> resource, repo |-> RepoOf(resource.stem),
     version |-> resource.ref, path |-> "kustomization.yaml"]

KustomizeScannerScan(resources) ==
    LET Matches(r) == RepoOf(r.stem) # "none" /\ r.sep # ""
        matched == SelectSeq(resources, Matches)
    IN  [k \in 1..Len(matched) |-> KustomizeDependency(matched[k])]

\* PreCommitScanner.scan: one dependency for each hook, in file order; owner
\* and repository are the first two components of the path of the URL.
HookRepoOf(url) ==
    CASE url = "https://github.com/ambv/black" -> "ambv/black"
      [] url = "https://github.com/pre-commit/pre-commit-hooks" ->
            "pre-commit/pre-commit-hooks"

PreCommitDependency(hook) ==
    [url |-> hook.repo, repo |-> HookRepoOf(hook.repo),
     version |-> hook.rev, path |-> ".pre-commit-config.yaml"]

PreCommitScannerScan(hooks) ==
    [k \in 1..Len(hooks) |-> PreCommitDependency(hooks[k])]

\* The KustomizeUpdate or PreCommitUpdate built for a dependency; key is the
\* url of the former and the repository of the latter.
TreeUpdateApplied(kind, d, latest) ==
    [kind |-> kind, path |-> d.path, applied |-> TRUE, key |-> d.url,
     repo |-> d.repo, current |-> d.version, latest |-> latest]

TreeUpdate(kind, d, latest) ==
    [kind |-> kind, path |-> d.path, applied |-> FALSE, key |-> d.url,
     repo |-> d.repo, current |-> d.version, latest |-> latest]

\* What analyze() returned or raised, the inventory requests it made for
\* each repository, and the number of apply() calls made on its results
\* with the position of the last one.
Report(analyzer, results, e, requests) ==
    [analyzer |-> analyzer, update |-> FALSE, results |-> results,
     raised |-> e, requests |-> requests, applies |-> 0, last |-> 0]

NoReport == Report("none", <<>>, "none", [r \in GitHubRepos |-> 0])

\* The loop of KustomizeAnalyzer.analyze and PreCommitAnalyzer.analyze: one
\* inventory request for each dependency, in order; an Update when the
\* answer is a tag other than the dependency's version; an exception of the
\* inventory ends the call.
TagAnalyzerLoop(kind, dependencies, answers) ==
    LET n     == Len(dependencies)
        Answer(k) == answers[dependencies[k].repo]
        stops == {k \in 1..n : Answer(k) = "BadRequest"}
        stop  == IF stops = {} THEN 0
                 ELSE CHOOSE k \in stops : \A j \in stops : k <= j
        seen  == IF stop = 0 THEN n ELSE stop
        Needed(k) == Answer(k) # "None" /\ Answer(k) # dependencies[k].version
        sel   == SelectSeq(Positions(n), Needed)
        requests == [r \in GitHubRepos |->
                        Cardinality({k \in 1..seen :
                                        dependencies[k].repo = r})]
    IN  IF stop # 0
        THEN Report(kind, <<>>, "BadRequest", requests)
        ELSE Report(kind,
                    [j \in 1..Len(sel) |->
                        TreeUpdate(kind, dependencies[sel[j]], Answer(sel[j]))],
                    "none", requests)

KustomizeAnalyzerAnalyze(t, answers) ==
    TagAnalyzerLoop("kustomize",
                    KustomizeScannerScan(t["kustomization.yaml"]), answers)

PreCommitAnalyzerAnalyze(t, answers) ==
    TagAnalyzerLoop("pre_commit",
                    PreCommitScannerScan(t[".pre-commit-config.yaml"]),
                    answers)

\* The trees the two analyzers are run on.
KustomizeTrees ==
    { <<>>,
      <<Resource("configmap.yaml", "")>>,
      <<Resource("github.com/lsst-sqre/sqrbot//manifests", "0.6.0"),
        Resource("github.com/lsst-sqre/sqrbot//manifests/extra", "0.6.0")>>,
      <<Resource("github.com/lsst-sqre/sqrbot//manifests", "0.6.0"),
        Resource("github.com/lsst-sqre/semaphore//manifests", "0.7.0")>>,
      <<Resource("configmap.yaml", ""),
        Resource("github.com/lsst-sqre/sqrbot//manifests", "0.6.0"),
        Resource("github.com/lsst-sqre/sqrbot//manifests", "0.6.0")>>,
      <<ResourceAmp("github.com/lsst-sqre/sqrbot//manifests?timeout=90",
                    "0.6.0"),
        Resource("configmap.yaml", "")>> }

HookTrees ==
    { <<>>,
      <<Hook("https://github.com/ambv/black", "0.6.0")>>,
      <<Hook("https://github.com/pre-commit/pre-commit-hooks", "0.7.0"),
        Hook("https://github.com/ambv/black", "0.6.0")>>,
      <<Hook("https://github.com/ambv/black", "0.6.0"),
        Hook("https://github.com/ambv/black", "0.7.0")>> }

InitTree ==
    /\ \E k \in KustomizeTrees, h \in HookTrees :
          tree = [p \in TreePaths |->
                    IF p = "kustomization.yaml" THEN k ELSE h]
    /\ released \in [GitHubRepos -> Answers]
    /\ report = NoReport

\* One call of analyze(update=update) of either analyzer, which ignores
\* the argument; the analyzers keep nothing from one call to the next, so
\* a behaviour follows one call.
KustomizeAnalyze(update) ==
    /\ report.analyzer = "none"
    /\ report' = [KustomizeAnalyzerAnalyze(tree, released)
                    EXCEPT !.update = update]
    /\ UNCHANGED <<taskVars, tree, released, pyVars, ghVars, helmVars, updVars,
                   cycleVars, cacheVars>>

PreCommitAnalyze(update) ==
    /\ report.analyzer = "none"
    /\ report' = [PreCommitAnalyzerAnalyze(tree, released)
                    EXCEPT !.update = update]
    /\ UNCHANGED <<taskVars, tree, released, pyVars, ghVars, helmVars, updVars,
                   cycleVars, cacheVars>>

\* One call of apply() on the k-th Update analyze() returned.
TreeApply(k) ==
    /\ report.applies < MaxCalls
    /\ k \in 1..Len(report.results)
    /\ LET u == report.results[k]
           o == IF u.kind = "kustomize"
                THEN KustomizeUpdateApply(u, u.applied, tree, NoIO)
                ELSE PreCommitUpdateApply(u, u.applied, tree, NoIO)
       IN  /\ tree' = o.files
           /\ report' = [report EXCEPT !.results[k].applied = o.applied,
                                       !.raised = o.raised,
                                       !.applies = @ + 1,
                                       !.last = k]
    /\ UNCHANGED <<taskVars, released, pyVars, ghVars, helmVars, updVars,
                   cycleVars, cacheVars>>

(***************************************************************************)
(* Concurrent calls of CachedHelmInventory.inventory on one instance       *)
(***************************************************************************)
\* The coroutines of the model.  A coroutine runs without interruption from
\* one await to the next; inventory() awaits only inside
\* super().inventory(url), the fetch of the index.
Tasks == {1, 2}

\* A coroutine that has not been started; during is the set of coroutines
\* that were awaiting their fetch when this one was called.
NoTask ==
    [pc |-> "idle", url |-> Url("none", ""), now |-> 0, outcome |-> "none",
     result |-> [gafaelfawr |-> ""], during |-> {}]

\* inventory(u) up to its return from the cache or its await of the fetch.
TaskCall(t, u) ==
    /\ tasks[t].pc = "idle"
    /\ LET url == canonicalize_url(u)
           during == {o \in Tasks : tasks[o].pc = "awaiting"}
       IN  IF url \in DOMAIN cache /\ Fresh(cache[url], now)
           THEN tasks' = [tasks EXCEPT ![t] =
                            [pc |-> "returned", url |-> url, now |-> now,
                             outcome |-> "cached",
                             result |-> cache[url].versions,
                             during |-> during]]
           ELSE tasks' = [tasks EXCEPT ![t] =
                            [pc |-> "awaiting", url |-> url, now |-> now,
                             outcome |-> "none", result |-> NoTask.result,
                             during |-> during]]
    /\ UNCHANGED <<procs, cacheVars, updVars, cycleVars, pyVars, ghVars,
                   helmVars, treeVars>>

\* The fetch ends: with an exception, which leaves inventory(), or with the
\* inventory, which is stored under the canonical URL with the time read at
\* the call, saved with the rest of the cache and returned.
TaskResume(t, ok) ==
    /\ tasks[t].pc = "awaiting"
    /\ IF ok
       THEN LET result == upstream[tasks[t].url]
                new == Store(cache, tasks[t].url,
                             [timestamp |-> tasks[t].now,
                              versions |-> result])
            IN  /\ cache' = new
                /\ cacheFile' = {new}
                /\ tasks' = [tasks EXCEPT ![t].pc = "returned",
                                          ![t].outcome = "fetched",
                                          ![t].result = result]
       ELSE /\ tasks' = [tasks EXCEPT ![t].pc = "returned",
                                      ![t].outcome = "ClientError"]
            /\ UNCHANGED <<cache, cacheFile>>
    /\ UNCHANGED <<procs, now, upstream, inv, updVars, cycleVars, pyVars,
                   ghVars, helmVars, treeVars>>

\* A tool process that has not been started.
Procs == {1, 2}

NoProc ==
    [started |-> FALSE, cache |-> <<>>, calls |-> 0, fetched |-> {},
     missed |-> {}, saved |-> 0]

InitTasks ==
    /\ tasks = [t \in Tasks |-> NoTask]
    /\ procs = [p \in Procs |-> NoProc]

\* The tags of Refs as SemanticVersion.from_str and PackagingVersion.from_str
\* read them, and the order max() of the inventory used on them.
RefVersion(ref) ==
    IF ref = "0.6.0" THEN Str(0, "", V(0, 6, 0, ""))
    ELSE Str(0, "", V(0, 7, 0, ""))

RefNewer(latest, current) ==
    ParsedVersionLess(SemanticVersionFromStr(RefVersion(current)),
                      SemanticVersionFromStr(RefVersion(latest)))

\* A caller of inventory() changes the mapping it was handed
\* (result["gafaelfawr"] = "0.0.0").
Mutated(versions) == [versions EXCEPT !.gafaelfawr = "0.0.0"]

\* The caller of the latest inventory() call mutates the mapping that call
\* returned.  That mapping is the object self._cache[url]["versions"]: the
\* one found in the cache on a hit, the one stored in it after a fetch.
CallerMutates ==
    /\ inv.outcome \in {"cached", "fetched"}
    /\ LET url == canonicalize_url(inv.url)
       IN  /\ cache[url].versions \in Inventories
           /\ cache' = [cache EXCEPT ![url].versions = Mutated(@)]
    /\ UNCHANGED <<cacheFile, now, upstream, inv, updVars, cycleVars, anVars>>

\* PullRequester.make_pull_request(changes) called on a checkout as it
\* stands, without Repository.switch_branch before it (tests/pr_test.py
\* test_pr_push_failure calls it so); the call then runs _get_github_repo
\* to _enable_auto_merge as in a Processor cycle.
MakePullRequestCall ==
    /\ pc = "idle"
    /\ \E id \in {"helm", "kustomize", "pre_commit"} :
          cycle' = [cycle EXCEPT !.n = 1, !.changes = <<id>>]
    /\ prcall' = [NoCall EXCEPT !.state = "running"]
    /\ pc' = "get_default_branch"
    /\ UNCHANGED <<git, repoObj, github, updVars, cacheVars, anVars>>

(***************************************************************************)
(* Tool processes that share one cache path                                *)
(***************************************************************************)
\* CachedHelmInventory._save_cache: the dump of the in-memory cache is the
\* new content of the file.
SaveCacheMerged(file, c) ==
    LET old == LoadCache(file)
    IN  {[k \in DOMAIN old \cup DOMAIN c |->
             IF k \in DOMAIN c THEN c[k] ELSE old[k]]}

SaveCache(file, c) == {c}

\* CachedHelmInventory.__init__ in process p: _load_cache reads the file.
ProcStart(p) ==
    /\ ~procs[p].started
    /\ procs' = [procs EXCEPT ![p].started = TRUE,
                              ![p].cache = LoadCache(cacheFile)]
    /\ UNCHANGED <<tasks, cacheVars, updVars, cycleVars, pyVars, ghVars,
                   helmVars, treeVars>>

\* inventory() calls the processes make between them in one behaviour.
MaxProcCalls == 2

\* inventory(u) in process p, on the cache of p.  A fetch that succeeds
\* stores the entry and saves the cache of p over the file; saved numbers
\* the saves of all processes, and missed collects, for each other running
\* process, the entries saved since it started.
ProcInventory(p, u, ok) ==
    /\ procs[p].started
    /\ procs[1].calls + procs[2].calls < MaxProcCalls
    /\ LET url == canonicalize_url(u)
           c   == procs[p].cache
       IN  IF url \in DOMAIN c /\ Fresh(c[url], now)
           THEN /\ procs' = [procs EXCEPT ![p].calls = @ + 1]
                /\ UNCHANGED cacheFile
           ELSE IF ok
           THEN LET entry == [timestamp |-> now, versions |-> upstream[url]]
                    new == Store(c, url, entry)
                    last == CHOOSE m \in {procs[q].saved : q \in Procs} :
                               \A q \in Procs : procs[q].saved <= m
                IN  /\ cacheFile' = SaveCache(cacheFile, new)
                    /\ procs' = [q \in Procs |->
                          IF q = p
                          THEN [procs[q] EXCEPT !.cache = new,
                                                !.calls = @ + 1,
                                                !.fetched = @ \cup {url},
                                                !.saved = last + 1]
                          ELSE IF procs[q].started
                          THEN [procs[q] EXCEPT
                                   !.missed = @ \cup {<<url, entry>>}]
                          ELSE procs[q]]
           ELSE /\ procs' = [procs EXCEPT ![p].calls = @ + 1]
                /\ UNCHANGED cacheFile
    /\ UNCHANGED <<tasks, cache, now, upstream, inv, updVars, cycleVars,
                   pyVars, ghVars, helmVars, treeVars>>

\* ---- idle values of the parts a specification does not exercise ---------
IdleUpdates ==
    /\ files = CHOOSE f \in WorkingTrees : TRUE
    /\ updates = [id \in UpdateIds |-> FALSE]
    /\ io = NoIO
    /\ raised = "none"
    /\ calls = [id \in UpdateIds |-> 0]

IdleCycle ==
    /\ pc = "idle"
    /\ git = FreshClone
    /\ repoObj = "none"
    /\ github = [open |-> <<>>, next |-> 8, auto_merge |-> {}]
    /\ prcall = NoCall
    /\ cycle = NoCycle

IdleCache ==
    /\ cache = <<>>
    /\ cacheFile = {}
    /\ now = 0
    /\ upstream = <<>>
    /\ inv = NoInventoryCall

IdlePython ==
    /\ pytree = [makefile |-> FALSE, main_in |-> FALSE, head |-> 0,
                 requirements |-> 0, other |-> FALSE]
    /\ pycall = NoPyCall

IdleGitHub ==
    /\ tags = [error |-> "none", names |-> <<>>]
    /\ ghinv = NoGitHubCall

IdleHelm ==
    /\ charts = <<>>
    /\ indexes = [r \in Bases |-> Index("none", {}, {})]
    /\ analysis = NoAnalysis

IdleTree ==
    /\ tree = [p \in TreePaths |-> <<>>]
    /\ released = [r \in GitHubRepos |-> "None"]
    /\ report = NoReport

IdleTasks == InitTasks

IdleAnalyzers ==
    IdlePython /\ IdleGitHub /\ IdleHelm /\ IdleTree /\ IdleTasks

(***************************************************************************)
(* Properties                                                              *)
(***************************************************************************)

\* C1: apply() on an Update whose applied flag is already true reads and
\* writes no file, runs no subprocess, raises nothing and leaves applied
\* true; so a second apply() in a row leaves the files as the first left
\* them.
C1_AppliedApplyIsNoop ==
    [][\A id \in UpdateIds :
         (calls'[id] = calls[id] + 1 /\ updates[id]) =>
            /\ files' = files
            /\ io' = io
            /\ raised' = "none"
            /\ updates'[id]]_vars

\* The Helm update was applied by a first call (one read, one write) and
\* apply() was then called again.
C1_Witness ==
    /\ calls["helm"] >= 2
    /\ updates["helm"]
    /\ io = [reads |-> 1, writes |-> 1, subprocs |-> 0]
    /\ \A id \in UpdateIds \ {"helm"} : calls[id] = 0

\* make_pull_request has gone through its create-or-update step.
PastCreateOrUpdate ==
    /\ prcall.push = "ok"
    /\ pc \notin {"update_pr", "create_pr"}

\* C2: a make_pull_request call that reaches the create-or-update step
\* issues exactly one POST and no PATCH when the search returned no pull
\* request, and exactly one PATCH, to the first pull request returned, and
\* no POST when it returned one.
C2_OnePostOrOnePatch ==
    PastCreateOrUpdate =>
        IF prcall.found = <<>>
        THEN prcall.posts = 1 /\ prcall.patches = <<>>
        ELSE prcall.posts = 0 /\ prcall.patches = <<Head(prcall.found)>>

C2_Witness ==
    /\ PastCreateOrUpdate
    /\ prcall.state = "returned"
    /\ prcall.found = <<7>>
    /\ prcall.patches = <<7>>

\* C3: with nobody else opening or closing pull requests, at most one pull
\* request from u/neophile is open, and exactly one is open once a
\* make_pull_request call has returned.
C3_OneOpenPullRequest ==
    /\ Len(github.open) <= 1
    /\ cycle.pr_returned >= 1 => Len(github.open) = 1

C3_Witness ==
    /\ cycle.pr_returned >= 2
    /\ Len(github.open) = 1
    /\ prcall.state = "returned"

\* Exceptions that come from the environment of a cycle rather than from
\* the state an earlier cycle left behind.
EnvironmentErrors ==
    {"UncommittedChangesError", "CalledProcessError", "GitHubException",
     "PushError", "HTTPException", "TypeError"}

\* C4: a cycle re-run on the checkout of an earlier cycle that created the
\* branch u/neophile and published a pull request, still open, completes
\* without error and, having found updates, updates the open pull request
\* with one PATCH and no POST.
C4_RerunUpdatesPullRequest ==
    (/\ cycle.rerun
     /\ cycle.pr_open
     /\ pc \in {"done", "failed"}) =>
        /\ cycle.error \in {"none"} \cup EnvironmentErrors
        /\ (cycle.error = "none" /\ cycle.changes # <<>>) =>
              (prcall.posts = 0 /\ Len(prcall.patches) = 1)

\* C5: when _process_one_repository exits after switch_branch has switched
\* to u/neophile, normally or with an error, HEAD is back on the branch
\* that was checked out before.
C5_BranchRestoredOnExit ==
    (/\ pc \in {"done", "failed"}
     /\ cycle.switched
     /\ cycle.error \in {"none", "UncommittedChangesError",
                         "DependencyNotFoundError", "PushError",
                         "GitHubException"}) =>
        git.head = repoObj

\* C6: a push result with the ERROR flag makes make_pull_request raise
\* PushError, with no POST, no PATCH and no auto-merge request, and no
\* pull request opened.
C6_PushErrorAborts ==
    prcall.push = "ERROR" =>
        /\ pc = "failed"
        /\ prcall.state = "raised"
        /\ cycle.error = "PushError"
        /\ prcall.posts = 0
        /\ prcall.patches = <<>>
        /\ prcall.graphql = 0
        /\ github.open = prcall.found

C6_Witness ==
    /\ prcall.push = "ERROR"
    /\ Len(git.pushes) >= 1
    /\ cycle.error = "PushError"

\* C7: the remote tmp-neophile exists only between Remote.add and the end
\* of the try statement of _push_branch, however the push ends; no such
\* remote exists after make_pull_request.
C7_TmpRemoteRemoved ==
    pc # "push" => TmpRemote \notin git.remotes

C7_Witness ==
    /\ prcall.remote_added
    /\ prcall.push \in {"ERROR", "GitCommandError"}
    /\ prcall.state = "raised"
    /\ TmpRemote \notin git.remotes

\* C8: a failure of the auto-merge step, of any kind, does not make
\* make_pull_request raise.
C8_AutoMergeFailureSwallowed ==
    prcall.auto_merge \in {"no_id", "QueryError", "HTTPException"} =>
        prcall.state = "returned"

\* C9: inventory(url) with a cache entry younger than 86400 seconds
\* returns the stored versions, fetches nothing and leaves the cache and
\* the cache file as they are.
C9_FreshEntryServed ==
    [][inv'.n = inv.n + 1 =>
         LET url == canonicalize_url(inv'.url)
         IN  (url \in DOMAIN cache /\ now - cache[url].timestamp < 86400) =>
                /\ inv'.fetches = 0
                /\ inv'.outcome = "cached"
                /\ inv'.result = cache[url].versions
                /\ cache' = cache
                /\ cacheFile' = cacheFile]_vars

\* An entry of age 86399 was served although the repository now advertises
\* something else.
C9_Witness ==
    /\ inv.outcome = "cached"
    /\ now - inv.prior = 86399
    /\ upstream[canonicalize_url(inv.url)] # inv.result

C17_NotFoundPropagates ==
    [][\A id \in {"helm", "kustomize", "pre_commit"} :
         (calls'[id] = calls[id] + 1 /\ ~updates[id] /\ ~Scanned(id, files))
            => /\ raised' = "DependencyNotFoundError"
               /\ files' = files
               /\ io'.writes = io.writes
               /\ ~updates'[id]]_vars

\* Each of the three kinds has been applied to a file without its record,
\* and the last of these calls raised.
C17_Witness ==
    /\ \A id \in {"helm", "kustomize", "pre_commit"} :
          calls[id] >= 1 /\ ~updates[id] /\ ~Scanned(id, files)
    /\ raised = "DependencyNotFoundError"
    /\ io.writes = 0

\* C13: PythonAnalyzer.analyze on a tree that has Makefile and
\* requirements/main.in and uncommitted changes raises
\* UncommittedChangesError, does not run "make update-deps" and leaves the
\* working tree as it was.
C13_DirtyTreeRaises ==
    [][(/\ pycall'.n = pycall.n + 1
        /\ pycall'.op = "analyze"
        /\ pytree.makefile /\ pytree.main_in
        /\ (pytree.requirements # pytree.head \/ pytree.other))
            => /\ pycall'.raised = "UncommittedChangesError"
               /\ pycall'.makes = 0
               /\ pycall'.results = <<>>
               /\ pytree' = pytree]_vars

\* analyze() was called on a dirty tree and raised.
C13_Witness ==
    /\ pycall.op = "analyze"
    /\ pycall.raised = "UncommittedChangesError"
    /\ pycall.makes = 0
    /\ pytree.makefile /\ pytree.main_in
    /\ pytree.requirements # pytree.head

\* C14: when "make update-deps" exits non-zero during
\* PythonAnalyzer.analyze, analyze returns an empty list and raises
\* nothing.
C14_FailedRegenerationReturnsEmpty ==
    [][(/\ pycall'.n = pycall.n + 1
        /\ pycall'.op = "analyze"
        /\ pycall'.makes = 1
        /\ pycall'.exit # 0)
            => /\ pycall'.raised = "none"
               /\ pycall'.results = <<>>]_vars

\* C15: analyze(update=False) whose regeneration succeeded: if it changed
\* the tree, the result is exactly one PythonFrozenUpdate with applied
\* false and the tracked tree is again as before the regeneration (clean);
\* if it changed nothing, the result is empty.
C15_AnalyzeRestoresTree ==
    [][(/\ pycall'.n = pycall.n + 1
        /\ pycall'.op = "analyze"
        /\ ~pycall'.update
        /\ pycall'.makes = 1
        /\ pycall'.exit = 0)
            => IF pycall'.generated # pytree.requirements
               THEN /\ pycall'.results =
                          <<[kind |-> "python", applied |-> FALSE]>>
                    /\ pytree' = pytree
                    /\ pytree'.requirements = pytree'.head /\ ~pytree'.other
               ELSE /\ pycall'.results = <<>>
                    /\ pytree' = pytree]_vars

\* analyze(update=False) regenerated other content than the committed one,
\* reported the update and left the tree clean.
C15_Witness ==
    /\ pycall.op = "analyze" /\ ~pycall.update
    /\ pycall.makes = 1 /\ pycall.exit = 0
    /\ pycall.generated # pytree.head
    /\ pycall.results = <<[kind |-> "python", applied |-> FALSE]>>
    /\ pytree.requirements = pytree.head /\ ~pytree.other

\* C16: analyzer.update() whose regeneration changed the tree returns one
\* PythonFrozenUpdate with applied true, the regenerated content is in the
\* working tree, and "make update-deps" ran exactly once in the whole call.
C16_UpdateRunsRegenerationOnce ==
    [][(/\ pycall'.n = pycall.n + 1
        /\ pycall'.op = "update"
        /\ pytree.makefile /\ pytree.main_in
        /\ pytree.requirements = pytree.head /\ ~pytree.other
        /\ pycall'.makes >= 1
        /\ pycall'.raised = "none"
        /\ pytree'.requirements # pytree.requirements)
            => /\ pycall'.results = <<[kind |-> "python", applied |-> TRUE]>>
               /\ pycall'.makes = 1
               /\ pycall'.exit = 0
               /\ pytree'.requirements = pycall'.generated
               /\ pytree'.requirements # pytree'.head]_vars

\* update() regenerated once, returned the applied update and left the
\* changes in the tree.
C16_Witness ==
    /\ pycall.op = "update"
    /\ pycall.results = <<[kind |-> "python", applied |-> TRUE]>>
    /\ pycall.makes = 1
    /\ pytree.requirements # pytree.head

\* C18: GitHubInventory.inventory raises nothing, and returns None when
\* the tags could not be retrieved (transport error, HTTP 4xx, malformed
\* response) or no tag is valid under the selected scheme.
C18_InventoryNeverRaises ==
    [][ghinv'.called /\ ghinv' # ghinv =>
          /\ ghinv'.raised = "none"
          /\ (\/ tags.error # "none"
              \/ \A k \in 1..Len(tags.names) :
                    ghinv'.semantic /\ ~SemanticVersionIsValid(tags.names[k]))
                => ghinv'.returned = "None"]_vars

\* C11: for a current that is not a valid semantic version the Helm
\* needs-update predicate is true for every latest when expression mode is
\* off; when expression mode is on it is true exactly when latest does not
\* satisfy the expression current (true or false, never an exception).
C11_ExpressionPins ==
    analysis.called =>
        \A k \in 1..Len(analysis.verdicts) :
            LET e == analysis.verdicts[k]
            IN  (e.result # "absent" /\ ~SemanticVersionIsValid(e.current))
                => IF ~analysis.allow_expressions
                   THEN e.result = "update"
                   ELSE /\ e.result \in {"update", "current"}
                        /\ e.current.op \in MatchOps =>
                              (e.result = "update" <=>
                                 ~VersionInfoMatch(StripV(e.latest).ver,
                                                   e.current.op,
                                                   e.current.ver))

\* C12: for a current that is a valid semantic version the predicate is
\* true exactly when latest, without its leading "v", is strictly greater
\* than current in semantic-version order; and each emitted HelmUpdate
\* carries the scanned current and the inventory's string for latest,
\* leading "v" included.
C12_VersionPins ==
    analysis.called =>
        /\ \A k \in 1..Len(analysis.verdicts) :
            LET e == analysis.verdicts[k]
            IN  (e.result # "absent" /\ SemanticVersionIsValid(e.current))
                => /\ e.result \in {"update", "current"}
                   /\ e.result = "update" <=>
                         VersionInfoCompare(StripV(e.latest).ver,
                                            StripV(e.current).ver) > 0
        /\ \A j \in 1..Len(analysis.results) :
            LET u == analysis.results[j]
                d == charts[u.dep]
            IN  /\ u.current = StripV(d.version)
                /\ u.latest =
                     HelmInventoryInventory(indexes[d.repository])[d.name]

\* C19: when the index of a Helm repository cannot be fetched or parsed,
\* analyze() raises nothing, emits no Update for the dependencies of that
\* repository and still evaluates the dependencies of the others.
C19_BrokenRepositorySkipped ==
    analysis.called =>
        /\ analysis.raised \notin IndexErrors \ {"none"}
        /\ \A k \in 1..Len(charts) :
              IF indexes[charts[k].repository].error # "none"
              THEN \A j \in 1..Len(analysis.results) :
                      analysis.results[j].dep # k
              ELSE \/ \E j \in 1..Len(analysis.verdicts) :
                         analysis.verdicts[j].dep = k
                   \/ analysis.raised = "ValueError"

\* C20: in an analyze() that obtained its inventories, a dependency whose
\* chart is absent from the inventory of its repository gives no Update
\* and no exception, and the loop goes on to the next dependency; when no
\* predicate raises, every dependency is evaluated.
C20_AbsentChartSkipped ==
    (analysis.called /\ analysis.raised \notin IndexErrors \ {"none"}) =>
        /\ \A k \in 1..Len(analysis.verdicts) :
              LET d == charts[k]
              IN  d.name \notin
                     DOMAIN HelmInventoryInventory(indexes[d.repository])
                  => /\ analysis.verdicts[k].result = "absent"
                     /\ \A j \in 1..Len(analysis.results) :
                           analysis.results[j].dep # k
                     /\ k < Len(charts) => Len(analysis.verdicts) > k
        /\ analysis.raised = "none" =>
              /\ Len(analysis.verdicts) = Len(charts)
              /\ \A k \in 1..Len(charts) : analysis.verdicts[k].dep = k

\* The first of two dependencies names a chart its repository does not
\* list, and the second one got its Update.
C20_Witness ==
    /\ analysis.called /\ analysis.raised = "none"
    /\ Len(charts) = 2
    /\ Len(analysis.verdicts) = 2
    /\ analysis.verdicts[1].result = "absent"
    /\ analysis.verdicts[2].result = "update"
    /\ Len(analysis.results) = 1
    /\ analysis.results[1].dep = 2

\* C21: HelmInventory.inventory returns, for every chart of the index with
\* at least one release whose version is a valid semantic version, the
\* original string of a greatest such version; releases without a valid
\* version are ignored, a chart with none is absent from the result, and
\* the result of a chart depends on the valid releases of that chart alone.
ValidReleases(index, name) ==
    {y.version : y \in {x \in index.entries[name] :
                          /\ "version" \in DOMAIN x
                          /\ x.version.v \in {0, 1}
                          /\ x.version.op = ""}}

C22_HelmApplyFrame ==
    [][(/\ calls'["helm"] = calls["helm"] + 1
        /\ ~updates["helm"]
        /\ updates'["helm"])
          => LET old == files["Chart.yaml"]
                 new == files'["Chart.yaml"]
             IN  /\ \A p \in DOMAIN files \ {"Chart.yaml"} :
                        files'[p] = files[p]
                 /\ DOMAIN new = DOMAIN old
                 /\ new.version = old.version
                 /\ Len(new.dependencies) = Len(old.dependencies)
                 /\ \A k \in 1..Len(old.dependencies) :
                        LET a == old.dependencies[k]
                            b == new.dependencies[k]
                        IN  IF a.name = HelmUpdate.key
                            THEN /\ DOMAIN b = DOMAIN a
                                 /\ b.name = a.name
                                 /\ b.repository = a.repository
                                 /\ b.version = HelmUpdate.latest
                            ELSE b = a]_vars

\* The update has been applied to a chart that also depends on redis: the
\* gafaelfawr entry carries latest, the redis entry its old version.
C22_Witness ==
    /\ calls["helm"] >= 1
    /\ updates["helm"]
    /\ files["Chart.yaml"] =
          Chart(<<Dep("gafaelfawr", HelmUpdate.latest), Dep("redis", "1.0.0")>>)

\* C23: after a successful KustomizeUpdate.apply() (applied goes from false
\* to true) exactly one entry of resources has changed: the first entry
\* equal to url, which is now url with its "?ref=<current>" suffix replaced
\* by "?ref=<latest>"; every other entry is as before.
C23_KustomizeApplyFrame ==
    [][(/\ report'.applies = report.applies + 1
        /\ report.results[report'.last].kind = "kustomize"
        /\ ~report.results[report'.last].applied
        /\ report'.results[report'.last].applied)
          => LET u   == report.results[report'.last]
                 old == tree["kustomization.yaml"]
                 new == tree'["kustomization.yaml"]
                 changed == {k \in 1..Len(old) : new[k] # old[k]}
             IN  /\ Len(new) = Len(old)
                 /\ Cardinality(changed) = 1
                 /\ \A k \in changed :
                        /\ old[k] = u.key
                        /\ \A j \in 1..(k - 1) : old[j] # u.key
                        /\ new[k].stem = u.key.stem
                        /\ new[k].sep = "?"
                        /\ new[k].ref = u.latest]_vars

\* C24: the commit made by make_pull_request stages exactly the paths of
\* the supplied Updates; a file modified in the working tree that is the
\* path of none of them is not part of the commit and stays modified.
C24_CommitStagesUpdatePaths ==
    [][Len(git'.commits) = Len(git.commits) + 1
          => LET paths == {UpdateMixin(cycle.changes[k]).path :
                              k \in 1..Len(cycle.changes)}
                 commit == git'.commits[Len(git'.commits)]
             IN  /\ prcall'.staged = paths
                 /\ commit.paths = paths
                 /\ \A p \in git.modified \ paths :
                        p \notin commit.paths /\ p \in git'.modified]_vars

\* A commit of the Helm update alone was made in a checkout where README.md
\* has uncommitted modifications and the Kustomize file was left alone.
C24_Witness ==
    /\ git.commits # <<>>
    /\ "README.md" \in git.modified
    /\ git.commits[Len(git.commits)].paths = {"Chart.yaml"}
    /\ prcall.staged = {"Chart.yaml"}

\* C25: for every valid semantic version string X, SemanticVersion.from_str
\* of "v" + X and of X compare equal in the ordering of SemanticVersion:
\* neither is less than the other.  Stated for the valid releases without
\* a leading "v" of the indexes an analysis has inventoried.
C25_PrefixedComparesEqual ==
    analysis.called
        => \A r \in DOMAIN analysis.latest : \A name \in ChartNames :
              \A x \in ValidReleases(indexes[r], name) :
                  x.v = 0
                      => LET plain    == SemanticVersionFromStr(x)
                             prefixed == SemanticVersionFromStr(
                                             Str(1, "", x.ver))
                         IN  /\ ~ParsedVersionLess(plain, prefixed)
                             /\ ~ParsedVersionLess(prefixed, plain)

\* C26: after Processor.process has completed a cycle on a new clone that
\* found updates and published a pull request, the checkout has a clean
\* working tree, HEAD is on the branch checked out before the cycle, the
\* local branch u/neophile no longer exists and there is no tmp-neophile
\* remote.
C26_CheckoutLeftAsFound ==
    (pc = "done" /\ cycle.fresh /\ prcall.state = "returned")
        => /\ git.modified = {}
           /\ git.head = repoObj
           /\ TmpRemote \notin git.remotes
           /\ NeophileBranch \notin git.heads

\* C27: PythonFrozenUpdate.apply() with applied false raises
\* subprocess.CalledProcessError to its caller when "make update-deps" exits
\* non-zero, and applied remains false.  A call that ran the subprocess and
\* left applied false is one whose "make update-deps" failed.
C27_FailedMakeRaises ==
    [][(/\ calls'["python"] = calls["python"] + 1
        /\ ~updates["python"]
        /\ io'.subprocs = io.subprocs + 1
        /\ ~updates'["python"])
          => raised' = "CalledProcessError"]_vars

\* C28: in one analyze() call the Kustomize and the pre-commit analyzer
\* request the inventory of each distinct GitHub repository at most once,
\* however many scanned dependencies share it (the Helm analyzer, which
\* asks once for each member of the set of repositories, is covered by
\* analysis.fetches).
C28_OneRequestPerSource ==
    /\ \A r \in GitHubRepos : report.requests[r] <= 1
    /\ \A r \in Bases : analysis.fetches[r] <= 1

\* C29: when inventory() calls for two distinct Helm repository URLs have
\* been made through one CachedHelmInventory instance, concurrently or one
\* after the other, and both have fetched and returned, the cache file
\* holds for each of the two URLs the entry that call fetched: its
\* inventory, with the time read at the call.
C29_BothEntriesPersisted ==
    (/\ \A t \in Tasks : tasks[t].outcome = "fetched"
     /\ tasks[1].url # tasks[2].url)
        => /\ cacheFile # {}
           /\ \A file \in cacheFile : \A t \in Tasks :
                 /\ tasks[t].url \in DOMAIN file
                 /\ file[tasks[t].url] =
                        [timestamp |-> tasks[t].now,
                         versions |-> tasks[t].result]

\* Two calls for different repositories were in flight together (the second
\* was made, at a later time, while the first awaited its fetch), both have
\* returned what they fetched and the file holds exactly their two entries.
C29_Witness ==
    /\ \A t \in Tasks : tasks[t].outcome = "fetched"
    /\ tasks[1].url # tasks[2].url
    /\ tasks[2].during = {1}
    /\ tasks[1].now < tasks[2].now
    /\ \A file \in cacheFile : DOMAIN file = {tasks[1].url, tasks[2].url}

C31_HelmAnalyzeIsPure ==
    [][analysis'.called /\ ~analysis.called
          => /\ charts' = charts
             /\ \A k \in 1..Len(analysis'.results) :
                    ~analysis'.results[k].applied]_vars

\* C32: in Processor.update_checkout the Python analyzer, with its
\* clean-tree check, runs before any Helm, Kustomize or pre-commit Update is
\* applied: update_checkout raises UncommittedChangesError only for a tree
\* that was already modified when it was called, and then no Update of the
\* cycle has been applied.
C32_PythonAnalyzerRunsFirst ==
    [][pc = "update_checkout" /\ cycle'.error = "UncommittedChangesError"
          => git.modified # {} /\ calls' = calls /\ files' = files]_vars

\* A cycle on a clean tree in which the Python analyzer regenerated the
\* requirements and the Helm and Kustomize Updates were applied after it.
C32_Witness ==
    /\ pc = "get_default_branch"
    /\ cycle.error = "none"
    /\ Len(cycle.changes) >= 3
    /\ cycle.changes[1] = "python"
    /\ cycle.changes[2] = "helm"
    /\ {"requirements", "Chart.yaml"} \subseteq git.modified

\* C33: KustomizeAnalyzer and PreCommitAnalyzer emit an Update only when the
\* inventory's latest version is newer than the dependency's current
\* version: no Update they return is a downgrade.
C33_NoDowngrade ==
    \A k \in 1..Len(report.results) :
        RefNewer(report.results[k].latest, report.results[k].current)

\* C34: the mapping CachedHelmInventory.inventory(url) returns is a copy of
\* the cached data: whatever a caller does to a mapping it was handed, a
\* later inventory(url) answered from the cache returns what the repository
\* advertised, and so does every entry written to the cache file.
C34_ReturnedMappingIsACopy ==
    /\ inv.outcome = "cached" => inv.result \in Inventories
    /\ \A data \in cacheFile : \A url \in DOMAIN data :
          data[url].versions \in Inventories

\* C35: every commit made and every force-push issued by make_pull_request
\* targets the branch u/neophile, whatever branch is checked out when it is
\* called.
C35_OnlyNeophileBranch ==
    /\ \A k \in 1..Len(git.commits) : git.commits[k].branch = NeophileBranch
    /\ \A k \in 1..Len(git.pushes) : git.pushes[k].refspec = NeophileBranch

\* The process that saved the cache file last, once every process has saved.
LastWriter ==
    CHOOSE w \in Procs : \A q \in Procs : procs[q].saved <= procs[w].saved

\* C36: with two tool processes on one cache path, each with its own
\* in-memory cache, the last writer wins: once both have saved, the file is
\* the in-memory cache of the process that saved last, and an entry the
\* other process saved after the last writer started, for a URL the last
\* writer never fetched, is not in the file.
C36_LastWriterWins ==
    (\A q \in Procs : procs[q].saved > 0)
        => LET w == LastWriter
           IN  /\ cacheFile = {procs[w].cache}
               /\ \A m \in procs[w].missed :
                     m[1] \notin procs[w].fetched
                         => \A data \in cacheFile :
                               \/ m[1] \notin DOMAIN data
                               \/ data[m[1]] # m[2]

\* Both processes started on an empty file; process 1 saved an entry for one
\* repository, then process 2 saved one for the other: the file holds the
\* entry of process 2 and no entry for the repository process 1 fetched.
C36_Witness ==
    /\ procs[1].saved = 1 /\ procs[2].saved = 2
    /\ procs[1].fetched # {} /\ procs[2].fetched # {}
    /\ procs[1].fetched \cap procs[2].fetched = {}
    /\ \A data \in cacheFile : DOMAIN data = procs[2].fetched
    /\ \E m \in procs[2].missed : m[1] \in procs[1].fetched

\* C37: when the fetch fails during CachedHelmInventory.inventory(url), the
\* exception propagates and the in-memory cache and the cache file are as
\* they were before the call: an expired entry is neither removed nor given
\* a new timestamp.
C37_FailedFetchChangesNothing ==
    [][inv'.n > inv.n /\ inv'.outcome = "ClientError"
          => cache' = cache /\ cacheFile' = cacheFile]_vars

\* A call found an expired entry, its fetch failed, and the entry is still
\* in the cache with the timestamp it had.
C37_Witness ==
    /\ inv.outcome = "ClientError"
    /\ inv.prior >= 0
    /\ canonicalize_url(inv.url) \in DOMAIN cache
    /\ cache[canonicalize_url(inv.url)].timestamp = inv.prior
    /\ ~Fresh(cache[canonicalize_url(inv.url)], now)
    /\ cacheFile = {cache}

\* C38: the Helm needs-update predicate returns a boolean and never raises,
\* for every scanned current and every latest of the inventory: each
\* dependency found in the inventory is judged to need an update or not, and
\* analyze() ends without ValueError.
C38_NeedsUpdateNeverRaises ==
    analysis.called =>
        /\ analysis.raised # "ValueError"
        /\ \A k \in 1..Len(analysis.verdicts) :
              analysis.verdicts[k].result \in {"absent", "update", "current"}

\* C39: each Update that BaseAnalyzer.update hands on to make_pull_request
\* has applied true, and its change is present in the working tree that is
\* committed: the file the Update names declares the dependency at latest.
C39_HandedUpdatesAreInTheTree ==
    \A k \in 1..Len(report.results) :
        LET u == report.results[k]
        IN  u.applied =>
               IF u.kind = "kustomize"
               THEN \E j \in 1..Len(tree["kustomization.yaml"]) :
                       /\ tree["kustomization.yaml"][j].stem = u.key.stem
                       /\ tree["kustomization.yaml"][j].ref = u.latest
               ELSE \E j \in 1..Len(tree[".pre-commit-config.yaml"]) :
                       /\ tree[".pre-commit-config.yaml"][j].repo = u.key
                       /\ tree[".pre-commit-config.yaml"][j].rev = u.latest

\* C40: a "make update-deps" that fails after it has modified tracked files
\* does not leave the working tree dirty when PythonAnalyzer.analyze exits,
\* so a later analyze() on the tree is not stopped by
\* UncommittedChangesError.
C40_FailedRegenerationLeavesTreeClean ==
    [][(/\ pycall'.n = pycall.n + 1
        /\ pycall'.op = "analyze"
        /\ pycall'.makes = 1
        /\ pycall'.exit # 0)
            => ~IsDirty(pytree')]_vars

(***************************************************************************)
(* Specification of the update appliers                                    *)
(***************************************************************************)
InitApply == InitUpdates /\ IdleCycle /\ IdleCache /\ IdleAnalyzers

NextApply == \E id \in UpdateIds : Apply(id)

SpecApply == InitApply /\ [][NextApply]_vars

(***************************************************************************)
(* Specification of the repository cycle                                   *)
(***************************************************************************)
InitProcess == InitCycle /\ IdleCache /\ IdleAnalyzers

NextProcess ==
    \/ \E fresh \in BOOLEAN : ProcessCheckout(fresh)
    \/ SwitchBranch
    \/ UpdateCheckout
    \/ GetGithubDefaultBranch
    \/ GetPr
    \/ CommitChanges
    \/ AddRemote
    \/ Push
    \/ UpdatePr
    \/ CreatePr
    \/ EnableAutoMerge
    \/ RestoreBranch

SpecProcess == InitProcess /\ [][NextProcess]_vars

(***************************************************************************)
(* Specification of the cached Helm inventory                              *)
(***************************************************************************)
InitInventory == InitCache /\ IdleUpdates /\ IdleCycle /\ IdleAnalyzers

NextInventory ==
    \/ \E u \in Urls, ok \in BOOLEAN : Inventory(u, ok)
    \/ Tick
    \/ Publish

SpecInventory == InitInventory /\ [][NextInventory]_vars

(***************************************************************************)
(* Specification of tool processes that share one cache path               *)
(***************************************************************************)
InitSharedCache == InitInventory

NextSharedCache ==
    \/ \E p \in Procs : ProcStart(p)
    \/ \E p \in Procs, u \in Urls, ok \in BOOLEAN : ProcInventory(p, u, ok)
    \/ Tick

SpecSharedCache == InitSharedCache /\ [][NextSharedCache]_vars

(***************************************************************************)
(* Specification of the pull request manager called on its own             *)
(***************************************************************************)
InitPullRequester == InitProcess

NextPullRequester ==
    \/ MakePullRequestCall
    \/ GetGithubDefaultBranch
    \/ GetPr
    \/ CommitChanges
    \/ AddRemote
    \/ Push
    \/ UpdatePr
    \/ CreatePr
    \/ EnableAutoMerge

SpecPullRequester == InitPullRequester /\ [][NextPullRequester]_vars

(***************************************************************************)
(* Specification of the cached Helm inventory with a caller that changes   *)
(* the mappings it is handed                                               *)
(***************************************************************************)
InitInventoryCaller == InitInventory

NextInventoryCaller ==
    \/ \E u \in Urls, ok \in BOOLEAN : Inventory(u, ok)
    \/ CallerMutates
    \/ Tick
    \/ Publish

SpecInventoryCaller == InitInventoryCaller /\ [][NextInventoryCaller]_vars

(***************************************************************************)
(* Specification of the Python analyzer                                    *)
(***************************************************************************)
InitPythonAnalyzer ==
    /\ InitPython /\ IdleGitHub /\ IdleHelm /\ IdleTree /\ IdleTasks
    /\ IdleUpdates /\ IdleCycle /\ IdleCache

NextPythonAnalyzer ==
    \/ \E update \in BOOLEAN : PyAnalyze(update)
    \/ PyUpdate
    \/ PyCommit

SpecPythonAnalyzer == InitPythonAnalyzer /\ [][NextPythonAnalyzer]_vars

(***************************************************************************)
(* Specification of the GitHub tag inventory                               *)
(***************************************************************************)
InitGitHubInventory ==
    /\ InitGitHub /\ IdlePython /\ IdleHelm /\ IdleTree /\ IdleTasks
    /\ IdleUpdates /\ IdleCycle /\ IdleCache

NextGitHubInventory ==
    \/ \E semantic \in BOOLEAN : GitHubInventoryCall(semantic)
    \/ GitHubChange

SpecGitHubInventory == InitGitHubInventory /\ [][NextGitHubInventory]_vars

(***************************************************************************)
(* Specification of the Helm analyzer                                      *)
(***************************************************************************)
InitHelmAnalyzer ==
    /\ InitHelm /\ IdlePython /\ IdleGitHub /\ IdleTree /\ IdleTasks
    /\ IdleUpdates /\ IdleCycle /\ IdleCache

NextHelmAnalyzer == \E allow_expressions \in BOOLEAN, update \in BOOLEAN :
                        HelmAnalyze(allow_expressions, update)

SpecHelmAnalyzer == InitHelmAnalyzer /\ [][NextHelmAnalyzer]_vars

(***************************************************************************)
(* Specification of the Kustomize and pre-commit analyzers                 *)
(***************************************************************************)
InitTreeAnalyzers ==
    /\ InitTree /\ IdlePython /\ IdleGitHub /\ IdleHelm /\ IdleTasks
    /\ IdleUpdates /\ IdleCycle /\ IdleCache

NextTreeAnalyzers ==
    \/ \E update \in BOOLEAN : KustomizeAnalyze(update)
    \/ \E update \in BOOLEAN : PreCommitAnalyze(update)
    \/ \E k \in 1..Len(report.results) : TreeApply(k)

SpecTreeAnalyzers == InitTreeAnalyzers /\ [][NextTreeAnalyzers]_vars

(***************************************************************************)
(* Specification of concurrent inventory calls on one cache                *)
(***************************************************************************)
InitConcurrentInventory ==
    /\ InitCache /\ InitTasks
    /\ IdlePython /\ IdleGitHub /\ IdleHelm /\ IdleTree
    /\ IdleUpdates /\ IdleCycle

NextConcurrentInventory ==
    \/ \E t \in Tasks, u \in Urls : TaskCall(t, u)
    \/ \E t \in Tasks, ok \in BOOLEAN : TaskResume(t, ok)
    \/ Tick
    \/ Publish

SpecConcurrentInventory ==
    InitConcurrentInventory /\ [][NextConcurrentInventory]_vars

====
